---- MODULE Spec2Model ----
(***************************************************************************)
(* Verification model of the worker runtime of CodeClarityCE/utility-types *)
(* (package boilerplates): the per-queue consumer loop of ServiceBase, the *)
(* transactional step update of PluginBase and the ServiceBase lifecycle   *)
(* (WaitForever / restart / monitorConnection / Close).                    *)
(*                                                                         *)
(* Several specifications share the module; each one moves its own group   *)
(* of variables and leaves the others at their initial value:              *)
(*   SpecConsumer : startQueueListener's consumer goroutine on one queue   *)
(*   SpecUpdate   : updateAnalysisInTransaction run by two workers         *)
(*   SpecLife     : AddQueue, StartListening, WaitForever, restart,        *)
(*                  monitorConnection, Close                               *)
(*   SpecConnect  : CreateServiceBaseWithName (configuration, stores,      *)
(*                  broker)                                                *)
(*   SpecErrors   : ErrorHandler.HandleError and                           *)
(*                  ErrorRecoveryStrategy.ShouldRetry                      *)
(*   SpecDelay    : ErrorRecoveryStrategy.GetRetryDelay                    *)
(*   SpecPlugin   : PluginBase's callback, SBOMPluginBase's analysis and   *)
(*                  the completion notification                            *)
(*   SpecRace     : the goroutines of one ServiceBase and its fields       *)
(*   SpecPrefetch : one consumer's channel setup and unsettled deliveries  *)
(*   SpecEco      : package ecosystem (HandlerRegistry, EcosystemMapper)   *)
(*   SpecGen      : the consumer goroutines of one queue across reconnects *)
(***************************************************************************)
EXTENDS Integers, Sequences, FiniteSets, TLC

(***************************************************************************)
(* Bounds of the model (not program constants).                            *)
(***************************************************************************)
MaxMsgs == 2
MaxTag == 4
MaxCalls == 2
MaxQueues == 2
MaxAttempts == 3
MaxErrCalls == 2
MaxAttemptCount == 4
MaxDelayAttempt == 36
MaxDeliveries == 2
MaxBacklog == 12
MaxRegistrations == 2
MaxGenerations == 3
MaxGenMsgs == 2
MaxConsumersPerQueue == 2
MaxSenders == 2

(***************************************************************************)
(* Program constants.                                                      *)
(***************************************************************************)
PrefetchCount == 10

VARIABLES
  \* ---- consumer loop (startQueueListener) ----
  ready,          \* broker side: messages waiting in the queue, FIFO
  tagMsg,         \* delivery tag -> message it carries (0: tag not used yet)
  unacked,        \* broker side: delivery tags delivered and not yet settled
  msgs,           \* the delivery stream returned by ch.Consume (tags, FIFO)
  chOpen,         \* the consumer's channel is open
  loopPc,         \* position of the consumer goroutine
  d,              \* the delivery the loop body is working on (0: none)
  ackCalls,       \* delivery tag -> acknowledgment calls issued on it, in order
  handlerOutcome, \* delivery tag -> how config.Handler(d) ended
  metricsLog,     \* outcomes recorded by RecordMessageProcessed, in order
  published       \* number of messages producers have put on the queue

consVars == <<ready, tagMsg, unacked, msgs, chOpen, loopPc, d, ackCalls,
              handlerOutcome, metricsLog, published>>

VARIABLES
  \* ---- step update (updateAnalysisInTransaction) ----
  analysis,       \* the persisted job-state record (row of table analysis)
  txPc,           \* worker -> "idle" | "save" (inside RunInTx, after the reload)
  txArgs,         \* worker -> arguments of the call in progress / last call
  txSnap,         \* worker -> the record as the call's reload read it
  txDoc,          \* worker -> the call's local analysisDoc
  txRet,          \* worker -> what the last call returned
  txCalls,        \* number of calls started so far
  txCallId        \* worker -> number of its call in progress / last call

updVars == <<analysis, txPc, txArgs, txSnap, txDoc, txRet, txCalls,
            txCallId>>

VARIABLES
  \* ---- service lifecycle (ServiceBase) ----
  queues,         \* sb.queues: the registered QueueConfig values, in order
  mainPc,         \* position of the goroutine that runs StartListening and
                  \* WaitForever
  sbConn,         \* sb.conn: index into conns
  sbStores,       \* sb.DB: store -> state of the handle sb.DB holds
  sbChannels,     \* sb.channels: queue name -> channel (<<conn, queue index>>)
  conns,          \* every broker connection dialed so far -> its state
  dbLeaks,        \* store handles left open that sb.DB no longer holds
  chans,          \* the broker channels that are open
  monitors,       \* the monitorConnection goroutine of every pass, each
                  \* with the closeChan it was given
  sigChan,        \* the sigChan of the current pass holds a signal
  attempts        \* how each call of restart ended, in order

lifeVars == <<queues, mainPc, sbConn, sbStores, sbChannels, conns, dbLeaks,
              chans, monitors, sigChan, attempts>>

VARIABLES
  \* ---- service construction (CreateServiceBaseWithName) ----
  cnEnv,          \* the environment of the call: entry (the constructor
                  \* called), set (required variable -> is it set),
                  \* fileOk (config.json reads), up (store -> is it
                  \* reachable), brokerUp
  cnPc,           \* position of the call
  cnPinged,       \* stores that have answered a Ping of this call
  cnHandles,      \* stores for which the call has opened a handle
  cnConn,         \* the call has an open broker connection
  cnRet           \* what the call returned: "none" (running) | "sb" | "pb"
                  \* | "err"

connVars == <<cnEnv, cnPc, cnPinged, cnHandles, cnConn, cnRet>>

VARIABLES
  \* ---- error classification and retry policy (error_handling.go) ----
  erFault,        \* the fault a caller holds (HandleError fills a structured
                  \* error in place, through the pointer)
  erLast,         \* the last call made: its arguments and what it returned
  erCalls         \* number of calls made so far

errVars == <<erFault, erLast, erCalls>>

VARIABLES
  \* ---- retry delay (GetRetryDelay) ----
  rdLast          \* the last call of GetRetryDelay: arguments and result

delayVars == <<rdLast>>

VARIABLES
  \* ---- PluginBase callback and GenericSBOMHandler ----
  pbPc,           \* position of the callback: "idle" | "handle" | "update" | "notify"
  pbDoc,          \* the persisted job-state record of the job
  pbMsg,          \* the delivery the callback was invoked with
  pbPath,         \* the path StartAnalysis took in this invocation
  pbRet,          \* what StartAnalysis returned in this invocation
  pbInserts,      \* ResultRecord inserts issued in this invocation
  pbResults,      \* the rows of table result, in insertion order
  pbLog,          \* commits and publishes of this invocation, in order
  pbSent,         \* messages handed to amqp_helper.Send, in order
  pbCalls         \* callback invocations so far

plugVars == <<pbPc, pbDoc, pbMsg, pbPath, pbRet, pbInserts, pbResults, pbLog,
              pbSent, pbCalls>>

VARIABLES
  \* ---- tasks of a ServiceBase and the fields they share ----
  rcPc,           \* task -> the access it is in the middle of (its position)
  rcChannels,     \* keys of sb.channels
  rcDest,         \* consumer -> queue name of its SendMessage in progress
  rcStale,        \* consumers whose channel was closed during a SendMessage
  rcFatal         \* the Go runtime has stopped the process (map race detected)

raceVars == <<rcPc, rcChannels, rcDest, rcStale, rcFatal>>

VARIABLES
  \* ---- prefetch window of one consumer (startQueueListener) ----
  pfStep,         \* setup calls of startQueueListener made so far
  pfPrefetch,     \* prefetch count of the channel (0: no limit)
  pfRegistered,   \* ch.Consume has registered the consumer
  pfReady,        \* messages waiting in the queue
  pfPublished,    \* messages producers have put on the queue
  pfBuffered,     \* deliveries in the msgs stream, not yet received
  pfHeld,         \* deliveries the loop body is working on (0 or 1)
  pfLost,         \* deliveries the loop left without Ack or Nack
  pfAlive         \* the consumer goroutine is running

prefVars == <<pfStep, pfPrefetch, pfRegistered, pfReady, pfPublished, pfBuffered, pfHeld, pfLost, pfAlive>>

VARIABLES
  \* ---- package ecosystem: HandlerRegistry and EcosystemMapper ----
  egRegistry,     \* the handlers map of the registry (language id -> handler)
  egHistory,      \* the RegisterHandler calls made on the registry, in order
  egMap,          \* the ecosystemMap of the mapper (plugin name -> info)
  egLast          \* the last call made and what it returned

ecoVars == <<egRegistry, egHistory, egMap, egLast>>

VARIABLES
  \* ---- one queue across reconnects: consumer goroutines by generation ----
  gnMain,         \* position of WaitForever
  gnConnOpen,     \* generation -> its channel (and broker connection) is open
  gnWorker,       \* generation -> position of its consumer goroutine
  gnBuffered,     \* generation -> deliveries waiting in its delivery stream
  gnUnacked,      \* generation -> deliveries of its channel not yet settled
  gnReady,        \* messages waiting in the queue at the broker
  gnPublished     \* messages published so far

genVars == <<gnMain, gnConnOpen, gnWorker, gnBuffered, gnUnacked, gnReady,
            gnPublished>>

vars == <<consVars, updVars, lifeVars, connVars, errVars, delayVars,
          plugVars, raceVars, prefVars, ecoVars, genVars>>

\* What each group of actions leaves alone.
notConsVars == <<updVars, lifeVars, connVars, errVars, delayVars, plugVars,
                 raceVars, prefVars, ecoVars, genVars>>
notUpdVars == <<consVars, lifeVars, connVars, errVars, delayVars, plugVars,
                raceVars, prefVars, ecoVars, genVars>>
notLifeVars == <<consVars, updVars, connVars, errVars, delayVars, plugVars,
                 raceVars, prefVars, ecoVars, genVars>>
notConnVars == <<consVars, updVars, lifeVars, errVars, delayVars, plugVars,
                 raceVars, prefVars, ecoVars, genVars>>
notDelayVars == <<consVars, updVars, lifeVars, connVars, errVars, plugVars,
                  raceVars, prefVars, ecoVars, genVars>>
notErrVars == <<consVars, updVars, lifeVars, connVars, delayVars, plugVars,
                raceVars, prefVars, ecoVars, genVars>>
notPluginVars == <<consVars, updVars, lifeVars, connVars, errVars,
                   delayVars, raceVars, prefVars, ecoVars, genVars>>
notRaceVars == <<consVars, updVars, lifeVars, connVars, errVars, delayVars,
                 plugVars, prefVars, ecoVars, genVars>>
notPrefetchVars == <<consVars, updVars, lifeVars, connVars, errVars,
                     delayVars, plugVars, raceVars, ecoVars, genVars>>
notEcoVars == <<consVars, updVars, lifeVars, connVars, errVars, delayVars,
                plugVars, raceVars, prefVars, genVars>>
notGenVars == <<consVars, updVars, lifeVars, connVars, errVars, delayVars,
                plugVars, raceVars, prefVars, ecoVars>>

Tags == 1..MaxTag
Msgs == 1..MaxMsgs

(***************************************************************************)
(* Broker side of an acknowledgment call on delivery tag t.  A known tag   *)
(* is settled: Ack drops the message, Nack(requeue=true) puts it back      *)
(* at the queue.  A second acknowledgment of a tag the broker has already  *)
(* settled is a channel-level protocol error: the broker closes the        *)
(* channel, requeues what was outstanding and the delivery stream ends.    *)
(* The result is the record of the broker-side variables.                  *)
(***************************************************************************)
RECURSIVE SeqOfSet(_)
SeqOfSet(S) ==
  IF S = {} THEN <<>>
  ELSE LET x == CHOOSE y \in S : \A z \in S : y <= z
       IN <<x>> \o SeqOfSet(S \ {x})

MsgsOf(tagSeq, tm) == [i \in 1..Len(tagSeq) |-> tm[tagSeq[i]]]

BrokerSettle(b, t, call) ==
  IF ~b.chOpen THEN b
  ELSE IF t \in b.unacked
  THEN [b EXCEPT !.unacked = @ \ {t},
                 !.ready = IF call = "nack_requeue"
                           THEN @ \o <<tagMsg[t]>> ELSE @]
  ELSE [b EXCEPT !.chOpen = FALSE,
                 !.ready = @ \o MsgsOf(SeqOfSet(b.unacked), tagMsg),
                 !.unacked = {},
                 !.msgs = <<>>]

RECURSIVE BrokerSettleAll(_, _, _)
BrokerSettleAll(b, t, calls) ==
  IF calls = <<>> THEN b
  ELSE BrokerSettleAll(BrokerSettle(b, t, Head(calls)), t, Tail(calls))

(***************************************************************************)
(* The body of the consumer loop for one delivery (osv.go 419-445): the    *)
(* inner func with its deferred recover.  h is how config.Handler(d)       *)
(* ended; bkAfter is how the bookkeeping after d.Ack ended: "ok", "panic"  *)
(* (RecordMessageProcessed "success" panics, nothing is recorded) or       *)
(* "logpanic" ("success" is recorded and the Debug log entry after it      *)
(* panics); bkRecover is how the bookkeeping inside the deferred recover   *)
(* ended (the Error log entry and RecordMessageProcessed "panic", both     *)
(* placed before d.Nack).  Result: the acknowledgment calls issued, the    *)
(* metrics recorded, and whether a panic escaped the inner func.           *)
(***************************************************************************)
BookkeepingOutcomes == {"ok", "panic", "logpanic"}

Recovered(bkRecover) ==
  IF bkRecover = "ok"
  THEN [calls |-> <<"nack_requeue">>, metrics |-> <<"panic">>, escaped |-> FALSE]
  ELSE [calls |-> <<>>, metrics |-> <<>>, escaped |-> TRUE]

ProcessDelivery(h, bkAfter, bkRecover) ==
  IF h = "panic"
  THEN Recovered(bkRecover)
  ELSE IF bkAfter = "ok"
  THEN [calls |-> <<"ack">>, metrics |-> <<"success">>, escaped |-> FALSE]
  ELSE LET r == Recovered(bkRecover)
           recorded == IF bkAfter = "logpanic" THEN <<"success">> ELSE <<>>
       IN [calls |-> <<"ack">> \o r.calls, metrics |-> recorded \o r.metrics,
           escaped |-> r.escaped]

\* The consumer variables while another specification runs.
ParkedConsumer ==
  /\ ready = <<>>
  /\ published = 0
  /\ tagMsg = <<>>
  /\ unacked = {}
  /\ msgs = <<>>
  /\ chOpen = FALSE
  /\ loopPc = "none"
  /\ d = 0
  /\ ackCalls = <<>>
  /\ handlerOutcome = <<>>
  /\ metricsLog = <<>>

\* The lifecycle variables while another specification runs.
ParkedLife ==
  /\ queues = <<>>
  /\ mainPc = "none"
  /\ sbConn = 0
  /\ sbStores = <<>>
  /\ sbChannels = <<>>
  /\ conns = <<>>
  /\ dbLeaks = 0
  /\ chans = {}
  /\ monitors = <<>>
  /\ sigChan = FALSE
  /\ attempts = <<>>

\* The step-update variables while another specification runs.
ParkedConnect ==
  /\ cnEnv = <<>>
  /\ cnPc = "none"
  /\ cnPinged = {}
  /\ cnHandles = {}
  /\ cnConn = FALSE
  /\ cnRet = "none"

\* The plugin callback variables while another specification runs.
ParkedPlugin ==
  /\ pbPc = "none"
  /\ pbDoc = <<>>
  /\ pbMsg = <<>>
  /\ pbPath = "none"
  /\ pbRet = <<>>
  /\ pbInserts = 0
  /\ pbResults = <<>>
  /\ pbLog = <<>>
  /\ pbSent = <<>>
  /\ pbCalls = 0

\* The task variables while another specification runs.
ParkedRace ==
  /\ rcPc = <<>>
  /\ rcChannels = {}
  /\ rcDest = <<>>
  /\ rcStale = {}
  /\ rcFatal = FALSE

\* The prefetch variables while another specification runs.
ParkedPrefetch ==
  /\ pfStep = 0
  /\ pfPrefetch = 0
  /\ pfRegistered = FALSE
  /\ pfReady = 0
  /\ pfPublished = 0
  /\ pfBuffered = 0
  /\ pfHeld = 0
  /\ pfLost = 0
  /\ pfAlive = FALSE

\* The generation variables while another specification runs.
ParkedGen ==
  /\ gnMain = "none"
  /\ gnConnOpen = <<>>
  /\ gnWorker = <<>>
  /\ gnBuffered = <<>>
  /\ gnUnacked = <<>>
  /\ gnReady = 0
  /\ gnPublished = 0

\* The ecosystem variables while another specification runs.
ParkedEco ==
  /\ egRegistry = <<>>
  /\ egHistory = <<>>
  /\ egMap = <<>>
  /\ egLast = <<>>

ParkedDelay == rdLast = [op |-> "none"]

ParkedErrors ==
  /\ erFault = [kind |-> "nil"]
  /\ erLast = [op |-> "none"]
  /\ erCalls = 0

ParkedUpdate ==
  /\ analysis = <<>>
  /\ txPc = <<>>
  /\ txArgs = <<>>
  /\ txSnap = <<>>
  /\ txDoc = <<>>
  /\ txRet = <<>>
  /\ txCalls = 0
  /\ txCallId = <<>>

InitConsumer ==
  /\ ready = <<>>
  /\ published = 0
  /\ tagMsg = [t \in Tags |-> 0]
  /\ unacked = {}
  /\ msgs = <<>>
  /\ chOpen = TRUE
  /\ loopPc = "range"
  /\ d = 0
  /\ ackCalls = [t \in Tags |-> <<>>]
  /\ handlerOutcome = [t \in Tags |-> "none"]
  /\ metricsLog = <<>>
  /\ ParkedGen
  /\ ParkedEco
  /\ ParkedPrefetch
  /\ ParkedRace
  /\ ParkedPlugin
  /\ ParkedUpdate
  /\ ParkedLife
  /\ ParkedConnect
  /\ ParkedErrors
  /\ ParkedDelay

\* A producer puts a new message on the queue.
Publish ==
  /\ published < MaxMsgs
  /\ published' = published + 1
  /\ ready' = Append(ready, published + 1)
  /\ UNCHANGED <<tagMsg, unacked, msgs, chOpen, loopPc, d, ackCalls,
                 handlerOutcome, metricsLog>>
  /\ UNCHANGED notConsVars

\* The broker pushes the head of the queue to the consumer, within the
\* prefetch window set by ch.Qos(10, 0, false).
Deliver ==
  /\ chOpen
  /\ ready # <<>>
  /\ Cardinality(unacked) < PrefetchCount
  /\ \E t \in Tags :
       /\ tagMsg[t] = 0
       /\ \A u \in Tags : u < t => tagMsg[u] # 0
       /\ tagMsg' = [tagMsg EXCEPT ![t] = Head(ready)]
       /\ unacked' = unacked \cup {t}
       /\ msgs' = Append(msgs, t)
  /\ ready' = Tail(ready)
  /\ UNCHANGED <<chOpen, loopPc, d, ackCalls, handlerOutcome, metricsLog,
                 published>>
  /\ UNCHANGED notConsVars

\* Mutant of Receive: the loop takes the newest buffered delivery.
Receive_NewestFirst ==
  /\ loopPc = "range"
  /\ msgs # <<>>
  /\ d' = msgs[Len(msgs)]
  /\ msgs' = SubSeq(msgs, 1, Len(msgs) - 1)
  /\ loopPc' = "handler"
  /\ UNCHANGED <<ready, tagMsg, unacked, chOpen, ackCalls, handlerOutcome,
                 metricsLog, published>>
  /\ UNCHANGED notConsVars

\* `for d := range msgs`: take the next delivery, start := time.Now().
Receive ==
  /\ loopPc = "range"
  /\ msgs # <<>>
  /\ d' = Head(msgs)
  /\ msgs' = Tail(msgs)
  /\ loopPc' = "handler"
  /\ UNCHANGED <<ready, tagMsg, unacked, chOpen, ackCalls, handlerOutcome,
                 metricsLog, published>>
  /\ UNCHANGED notConsVars

\* config.Handler(d) ends (returns or panics) and the rest of the inner func
\* runs.  A panic that escapes the inner func is caught by the goroutine's
\* outer recover, which ends the goroutine.
Process(h, bkAfter, bkRecover) ==
  /\ loopPc = "handler"
  /\ LET r == ProcessDelivery(h, bkAfter, bkRecover)
         b == BrokerSettleAll([ready |-> ready, unacked |-> unacked,
                               msgs |-> msgs, chOpen |-> chOpen], d, r.calls)
     IN /\ ackCalls' = [ackCalls EXCEPT ![d] = r.calls]
        /\ metricsLog' = metricsLog \o r.metrics
        /\ loopPc' = IF r.escaped THEN "dead" ELSE "range"
        /\ ready' = b.ready
        /\ unacked' = b.unacked
        /\ msgs' = b.msgs
        /\ chOpen' = b.chOpen
  /\ handlerOutcome' = [handlerOutcome EXCEPT ![d] = h]
  /\ d' = 0
  /\ UNCHANGED <<tagMsg, published>>
  /\ UNCHANGED notConsVars

\* The delivery stream is closed and drained: the range loop ends and the
\* goroutine logs "consumer stopped".
StreamEnd ==
  /\ loopPc = "range"
  /\ ~chOpen
  /\ msgs = <<>>
  /\ loopPc' = "stopped"
  /\ UNCHANGED <<ready, tagMsg, unacked, msgs, chOpen, d, ackCalls,
                 handlerOutcome, metricsLog, published>>
  /\ UNCHANGED notConsVars

HandlerEnds == \E h \in {"return", "panic"}, bkAfter \in BookkeepingOutcomes,
                  bkRecover \in {"ok", "panic"} : Process(h, bkAfter, bkRecover)

NextConsumer ==
  \/ Publish
  \/ Deliver
  \/ Receive
  \/ HandlerEnds
  \/ StreamEnd

SpecConsumer == InitConsumer /\ [][NextConsumer]_vars

(***************************************************************************)
(* Claims about the consumer loop.                                         *)
(***************************************************************************)
Processed(t) == handlerOutcome[t] # "none"

\* C1: every delivery the loop body has finished with carries exactly one
\* acknowledgment call (Ack, or Nack with requeue), whether the handler
\* returned or panicked and however the bookkeeping after it ended.
C1_ExactlyOneAck ==
  \A t \in Tags : Processed(t) => Len(ackCalls[t]) = 1

\* C2: when the handler panics on a delivery, the loop body issues
\* Nack(requeue) on that delivery and the consumer goroutine goes back to
\* the range loop to take the deliveries that follow.
C2_PanicNackedLoopAlive ==
  [][(loopPc = "handler" /\ handlerOutcome'[d] = "panic")
       => (ackCalls'[d] = <<"nack_requeue">> /\ loopPc' = "range")]_vars


(***************************************************************************)
(* PluginBase.updateAnalysisInTransaction (plugin_base.go 196-238).        *)
(*                                                                         *)
(* The record is codeclarity.Analysis: Stage, Steps ([][]Step) and Config  *)
(* are the fields the update reads or carries.  Stage is a Go index        *)
(* (0-based); Steps is kept as a TLA+ sequence, so the current stage is    *)
(* Steps[Stage + 1].                                                       *)
(*                                                                         *)
(* The transaction is opened with the zero sql.TxOptions, i.e. the         *)
(* store's default isolation: the reload is a plain SELECT and the write   *)
(* is an UPDATE of the whole row, so two calls may interleave between      *)
(* their reload and their write.  Each call is two steps: UpdateReload     *)
(* (begin, SELECT, the in-memory scan of the current stage) and            *)
(* UpdateSave (UPDATE, commit, return).                                    *)
(***************************************************************************)
Workers == {1, 2}

PluginNames == {"js-sbom", "php-sbom", "license-finder"}

\* time.Time values: wall clock seconds and nanoseconds, zone offset, and
\* the monotonic clock reading that time.Now() attaches.
T0 == [sec |-> 100, nsec |-> 0, offset |-> 0, mono |-> 7]
T1 == [sec |-> 101, nsec |-> 500000000, offset |-> 3600, mono |-> 9]
T2 == [sec |-> 102, nsec |-> 120, offset |-> 0, mono |-> 0]

\* Decimal digits of n, most significant first, padded to width w.
RECURSIVE Digits(_, _)
Digits(n, w) == IF w = 0 THEN <<>> ELSE Append(Digits(n \div 10, w - 1), n % 10)

RECURSIVE TrimZeros(_)
TrimZeros(ds) ==
  IF ds # <<>> /\ ds[Len(ds)] = 0 THEN TrimZeros(SubSeq(ds, 1, Len(ds) - 1))
  ELSE ds

\* t.Format(time.RFC3339Nano): the text carries the wall clock reading in
\* the value's zone, the fraction without trailing zeros, and the zone
\* offset; the monotonic reading is not part of the text.
FormatRFC3339Nano(t) ==
  [secs |-> t.sec + t.offset, frac |-> TrimZeros(Digits(t.nsec, 9)),
   zone |-> t.offset]

Payloads ==
  { [result |-> "packageCount=42", status |-> "success", start |-> T0, end |-> T1],
    [result |-> "empty", status |-> "failure", start |-> T1, end |-> T2],
    [result |-> "empty", status |-> "ongoing", start |-> T2, end |-> T2] }

NewStep(name) ==
  [Name |-> name, Version |-> "v1", Config |-> "cfg", Status |-> "started",
   Result |-> "nil", Started_on |-> "", Ended_on |-> ""]

InitialRecords ==
  { [Stage |-> st, Steps |-> << <<NewStep(n[1]), NewStep(n[2])>>,
                               <<NewStep("js-sbom")>> >>, Config |-> "jobcfg"] :
      st \in {0, 1, 2},
      n \in { <<"js-sbom", "php-sbom">>, <<"php-sbom", "js-sbom">>,
              <<"js-sbom", "js-sbom">> } }

\* The zero codeclarity.Analysis{} returned with an error.
ZeroAnalysis == [Stage |-> 0, Steps |-> <<>>, Config |-> "nil"]

NoArgs == [name |-> "", result |-> "nil", status |-> "", start |-> T0, end |-> T0]

StageInRange(doc) == doc.Stage >= 0 /\ doc.Stage < Len(doc.Steps)

CurrentStage(doc) == doc.Steps[doc.Stage + 1]

\* The index of the first step of the stage named name, 0 when there is none
\* (the range loop with its break, plugin_base.go 213-222).
FindStep(stage, name) ==
  IF \E i \in 1..Len(stage) : stage[i].Name = name
  THEN CHOOSE i \in 1..Len(stage) :
         /\ stage[i].Name = name
         /\ \A j \in 1..(i - 1) : stage[j].Name # name
  ELSE 0

\* Mutant of SetStep: start and end swapped.
SetStep_Swapped(doc, stepId, a) ==
  [doc EXCEPT !.Steps[doc.Stage + 1][stepId] =
     [@ EXCEPT !.Status = a.status,
               !.Result = a.result,
               !.Started_on = FormatRFC3339Nano(a.end),
               !.Ended_on = FormatRFC3339Nano(a.start)]]

\* The four assignments to analysisDoc.Steps[analysisDoc.Stage][stepId].
SetStep(doc, stepId, a) ==
  [doc EXCEPT !.Steps[doc.Stage + 1][stepId] =
     [@ EXCEPT !.Status = a.status,
               !.Result = a.result,
               !.Started_on = FormatRFC3339Nano(a.start),
               !.Ended_on = FormatRFC3339Nano(a.end)]]

\* Mutant of ScanAndSet: the stepFound check left out, so that a call for a
\* name the stage does not hold goes on to write the record and succeed.
ScanAndSet_NoCheck(doc, a) ==
  IF ~StageInRange(doc) THEN [kind |-> "panic", doc |-> doc]
  ELSE LET stepId == FindStep(CurrentStage(doc), a.name)
       IN IF stepId = 0 THEN [kind |-> "found", doc |-> doc]
          ELSE [kind |-> "found", doc |-> SetStep(doc, stepId, a)]

\* Mutant of ScanAndSet: steps that already carry the call's status are
\* passed over in the scan.
ScanAndSet_SkipSameStatus(doc, a) ==
  IF ~StageInRange(doc) THEN [kind |-> "panic", doc |-> doc]
  ELSE LET stage == CurrentStage(doc)
           hits == {i \in 1..Len(stage) :
                      stage[i].Name = a.name /\ stage[i].Status # a.status}
       IN IF hits = {} THEN [kind |-> "notfound", doc |-> doc]
          ELSE [kind |-> "found",
                doc |-> SetStep(doc, CHOOSE i \in hits : \A j \in hits : i <= j, a)]

\* The body of the RunInTx callback after a successful reload, up to the
\* write: "panic" when indexing Steps with Stage leaves the slice, "notfound"
\* when no step of the current stage carries the plugin's name, else the
\* modified document.
ScanAndSet(doc, a) ==
  IF ~StageInRange(doc) THEN [kind |-> "panic", doc |-> doc]
  ELSE LET stepId == FindStep(CurrentStage(doc), a.name)
       IN IF stepId = 0 THEN [kind |-> "notfound", doc |-> doc]
          ELSE [kind |-> "found", doc |-> SetStep(doc, stepId, a)]

NoRet == [kind |-> "none", err |-> "", doc |-> ZeroAnalysis]

InitUpdate ==
  /\ analysis \in InitialRecords
  /\ txPc = [w \in Workers |-> "idle"]
  /\ txArgs = [w \in Workers |-> NoArgs]
  /\ txSnap = [w \in Workers |-> ZeroAnalysis]
  /\ txDoc = [w \in Workers |-> ZeroAnalysis]
  /\ txRet = [w \in Workers |-> NoRet]
  /\ txCalls = 0
  /\ txCallId = [w \in Workers |-> 0]
  /\ ParkedGen
  /\ ParkedEco
  /\ ParkedPrefetch
  /\ ParkedRace
  /\ ParkedPlugin
  /\ ParkedConsumer
  /\ ParkedLife
  /\ ParkedConnect
  /\ ParkedErrors
  /\ ParkedDelay

\* Worker w calls updateAnalysisInTransaction: RunInTx begins, the record is
\* reloaded (reloadOk: the SELECT succeeded) and the current stage scanned.
UpdateReload(w, a, reloadOk) ==
  /\ txPc[w] = "idle"
  /\ txCalls < MaxCalls
  /\ txCalls' = txCalls + 1
  /\ txCallId' = [txCallId EXCEPT ![w] = txCalls + 1]
  /\ txArgs' = [txArgs EXCEPT ![w] = a]
  /\ UNCHANGED analysis
  /\ UNCHANGED notUpdVars
  /\ IF ~reloadOk
     THEN /\ txRet' = [txRet EXCEPT ![w] =
                [kind |-> "error", err |-> "failed to reload analysis",
                 doc |-> ZeroAnalysis]]
          /\ txSnap' = [txSnap EXCEPT ![w] = ZeroAnalysis]
          /\ txDoc' = [txDoc EXCEPT ![w] = ZeroAnalysis]
          /\ UNCHANGED txPc
     ELSE LET r == ScanAndSet(analysis, a)
          IN /\ txSnap' = [txSnap EXCEPT ![w] = analysis]
             /\ txDoc' = [txDoc EXCEPT ![w] = r.doc]
             /\ txPc' = [txPc EXCEPT ![w] =
                    IF r.kind = "found" THEN "save" ELSE "idle"]
             /\ txRet' = [txRet EXCEPT ![w] =
                    CASE r.kind = "found" -> NoRet
                      [] r.kind = "notfound" ->
                           [kind |-> "error", err |-> "step not found",
                            doc |-> ZeroAnalysis]
                      [] OTHER ->
                           [kind |-> "panic", err |-> "index out of range",
                            doc |-> ZeroAnalysis]]

\* The UPDATE of the whole row and the commit (saveOk), then the return.
UpdateSave(w, saveOk) ==
  /\ txPc[w] = "save"
  /\ txPc' = [txPc EXCEPT ![w] = "idle"]
  /\ IF saveOk
     THEN /\ analysis' = txDoc[w]
          /\ txRet' = [txRet EXCEPT ![w] =
                [kind |-> "ok", err |-> "", doc |-> txDoc[w]]]
     ELSE /\ UNCHANGED analysis
          /\ txRet' = [txRet EXCEPT ![w] =
                [kind |-> "error", err |-> "transaction failed",
                 doc |-> ZeroAnalysis]]
  /\ UNCHANGED <<txArgs, txSnap, txDoc, txCalls, txCallId>>
  /\ UNCHANGED notUpdVars

Args == { [name |-> n, result |-> p.result, status |-> p.status,
           start |-> p.start, end |-> p.end] : n \in PluginNames, p \in Payloads }

CallUpdate == \E w \in Workers, a \in Args, reloadOk \in BOOLEAN :
                UpdateReload(w, a, reloadOk)

CommitUpdate == \E w \in Workers, saveOk \in BOOLEAN : UpdateSave(w, saveOk)

NextUpdate ==
  \/ CallUpdate
  \/ CommitUpdate

SpecUpdate == InitUpdate /\ [][NextUpdate]_vars

(***************************************************************************)
(* Claims about updateStep.                                                *)
(***************************************************************************)
\* In this step worker w starts a call / commits / returns from its call.
Reloads(w) == txCallId'[w] # txCallId[w]
Saves(w) == txPc[w] = "save" /\ txPc'[w] = "idle"
Returns(w) == Saves(w) \/ (Reloads(w) /\ txPc'[w] = "idle")

\* The call of w read a record with a current stage that holds no step of
\* the call's plugin name.
NameAbsent(snap, a) ==
  /\ StageInRange(snap)
  /\ \A i \in 1..Len(CurrentStage(snap)) : CurrentStage(snap)[i].Name # a.name

\* C3: a call whose plugin name matches no step of the current stage
\* returns the "step not found" error, and no step of that call writes the
\* persisted record.
C3_NotFoundLeavesRecord ==
  [][\A w \in Workers :
       (Returns(w) /\ NameAbsent(txSnap'[w], txArgs'[w]))
         => /\ txRet'[w].kind = "error"
            /\ txRet'[w].err = "step not found"
            /\ txRet'[w].doc = ZeroAnalysis
            /\ analysis' = analysis]_vars

C3_Witness ==
  \E w \in Workers :
    /\ txRet[w].err = "step not found"
    /\ txArgs[w].name = "license-finder"
    /\ NameAbsent(txSnap[w], txArgs[w])
    /\ analysis = txSnap[w]

\* after differs from before at most in Status, Result, Started_on and
\* Ended_on of the first step named name of the current stage.
OnlyTargetStepChanged(before, after, name) ==
  /\ after.Stage = before.Stage
  /\ after.Config = before.Config
  /\ Len(after.Steps) = Len(before.Steps)
  /\ \A s \in 1..Len(before.Steps) :
       /\ Len(after.Steps[s]) = Len(before.Steps[s])
       /\ \A i \in 1..Len(before.Steps[s]) :
            IF s = before.Stage + 1 /\ i = FindStep(before.Steps[s], name)
            THEN /\ after.Steps[s][i].Name = before.Steps[s][i].Name
                 /\ after.Steps[s][i].Version = before.Steps[s][i].Version
                 /\ after.Steps[s][i].Config = before.Steps[s][i].Config
            ELSE after.Steps[s][i] = before.Steps[s][i]

\* C4: the commit of a successful call changes, in the persisted record,
\* only status, result, start and end time of the first step of the
\* current stage named after the plugin; sibling steps, other stages, the
\* stage index and the configuration stay as they were persisted.
C4_OnlyTargetStepChanges ==
  [][\A w \in Workers :
       (Saves(w) /\ txRet'[w].kind = "ok")
         => OnlyTargetStepChanged(analysis, analysis', txArgs[w].name)]_vars

\* Reading an RFC3339Nano text back (time.Parse): the instant and the zone
\* offset; a text carries no monotonic reading.
RECURSIVE DigitsValue(_, _)
DigitsValue(ds, w) ==
  IF w = 0 THEN 0
  ELSE DigitsValue(ds, w - 1) * 10 + (IF w <= Len(ds) THEN ds[w] ELSE 0)

ParseRFC3339Nano(txt) ==
  [sec |-> txt.secs - txt.zone, nsec |-> DigitsValue(txt.frac, 9),
   offset |-> txt.zone, mono |-> 0]

SameInstant(t, u) == t.sec = u.sec /\ t.nsec = u.nsec /\ t.offset = u.offset

\* C5: when a call for a step the current stage holds commits, the persisted
\* step of that name has the call's status and result, its Started_on and
\* Ended_on are the texts of the call's start and end time (they read back
\* as the same instants), and the returned record is the persisted one.
C5_StepHoldsCallValues ==
  [][\A w \in Workers :
       (Saves(w) /\ txRet'[w].kind = "ok")
         => LET stage == CurrentStage(analysis')
                st == stage[FindStep(stage, txArgs[w].name)]
            IN /\ st.Name = txArgs[w].name
               /\ st.Status = txArgs[w].status
               /\ st.Result = txArgs[w].result
               /\ st.Started_on = FormatRFC3339Nano(txArgs[w].start)
               /\ st.Ended_on = FormatRFC3339Nano(txArgs[w].end)
               /\ SameInstant(ParseRFC3339Nano(st.Started_on), txArgs[w].start)
               /\ SameInstant(ParseRFC3339Nano(st.Ended_on), txArgs[w].end)
               /\ txRet'[w].doc = analysis']_vars

\* The scenario of the specification: stage 0 holds js-sbom with status
\* ongoing, and the call sets success, packageCount=42, t0, t1.
C5_Witness ==
  \E w \in Workers :
    /\ txRet[w].kind = "ok"
    /\ txArgs[w].name = "js-sbom"
    /\ txArgs[w].status = "success"
    /\ txArgs[w].result = "packageCount=42"
    /\ txSnap[w].Stage = 0
    /\ txSnap[w].Steps[1][1].Name = "js-sbom"
    /\ txSnap[w].Steps[1][1].Status = "ongoing"
    /\ analysis.Steps[1][1].Status = "success"
    /\ analysis.Steps[1][1].Started_on = FormatRFC3339Nano(T0)
    /\ analysis.Steps[1][1].Ended_on = FormatRFC3339Nano(T1)

\* The statuses of codeclarity.AnalysisStatus a step ends in, and the others.
TerminalStatuses == {"success", "failure", "completed"}

NonTerminalStatuses == {"started", "ongoing", "updating_db"}

\* C18: no step of the persisted record goes from a terminal status
\* (success, failure, completed) to a non-terminal one (started, ongoing,
\* updating_db), whatever calls of updateStep are made.
C18_StatusNeverReverts ==
  [][\A s \in 1..Len(analysis.Steps) : \A i \in 1..Len(analysis.Steps[s]) :
       analysis.Steps[s][i].Status \in TerminalStatuses
         => analysis'.Steps[s][i].Status \notin NonTerminalStatuses]_vars

\* C19: a call that commits with the arguments of an earlier successful call
\* of the other worker, having read the record that call persisted, leaves
\* the persisted record as it was.
C19_RepeatedUpdateChangesNothing ==
  [][\A w \in Workers :
       (/\ Saves(w)
        /\ txRet'[w].kind = "ok"
        /\ \E v \in Workers \ {w} :
             /\ txRet[v].kind = "ok"
             /\ txArgs[v] = txArgs[w]
             /\ txRet[v].doc = txSnap[w])
         => analysis' = analysis]_vars

\* Both workers have made the same successful call, one after the other, on
\* a stage with two steps of the call's name.
C19_Witness ==
  /\ \A w \in Workers : txRet[w].kind = "ok" /\ txRet[w].doc = analysis
  /\ txArgs[1] = txArgs[2]
  /\ txArgs[1].status = "success"
  /\ \E w \in Workers : txSnap[w] = analysis
  /\ \E w \in Workers : txSnap[w] # analysis
  /\ analysis.Stage = 0
  /\ analysis.Steps[1][1].Name = analysis.Steps[1][2].Name

\* C20: when both workers have returned success from calls for two
\* different steps of the current stage, the persisted record holds the
\* status and result of both calls.
C20_NoLostUpdate ==
  (/\ \A w \in Workers : txRet[w].kind = "ok"
   /\ txArgs[1].name # txArgs[2].name)
    => \A w \in Workers :
         LET i == FindStep(CurrentStage(analysis), txArgs[w].name)
         IN /\ CurrentStage(analysis)[i].Status = txArgs[w].status
            /\ CurrentStage(analysis)[i].Result = txArgs[w].result

(***************************************************************************)
(* ServiceBase lifecycle (osv.go 348-364, 494-611, 718-755).               *)
(*                                                                         *)
(* One goroutine runs AddQueue, StartListening and WaitForever; every pass *)
(* of the WaitForever loop starts one monitorConnection goroutine.  The    *)
(* lifecycle states of the specification are positions of that goroutine:  *)
(*   LISTENING    mainPc = "select"                                        *)
(*   RECONNECTING mainPc \in {"cooldown", "backoff"} (and "top" on the way *)
(*                back into the loop)                                      *)
(*   SHUTDOWN     mainPc = "returned"                                      *)
(* The outcome of every call into the environment (configuration reload,   *)
(* store ping, broker dial, channel, QoS, declare, consume) is chosen by   *)
(* the environment.  A monitor goroutine that has exited and whose         *)
(* closeChan no pass reads any more is kept as the value Retired.          *)
(***************************************************************************)
Stores == {"CodeClarity", "Knowledge", "Plugins", "Config"}

QueueArgs ==
  { [Name |-> "dispatcher_js", Durable |-> TRUE, Handler |-> "handleJs"],
    [Name |-> "dispatcher_php", Durable |-> FALSE, Handler |-> "handlePhp"] }

ListenSteps == {"channel", "qos", "declare", "consume"}

Last(seq) == seq[Len(seq)]

\* mp with key k set to v (a Go map assignment).
MapPut(mp, k, v) == [x \in DOMAIN mp \cup {k} |-> IF x = k THEN v ELSE mp[x]]

EmptyMap == [x \in {} |-> 0]

AllOpen == [st \in Stores |-> "open"]

SomeOpen(stores) == \E st \in Stores : stores[st] = "open"

\* Mutant of NewMonitor: the goroutine watches the connection the service
\* was created with instead of reading sb.conn when it starts.
NewMonitor_FirstConn(c, cs) ==
  [conn |-> 1, state |-> "running",
   notify |-> IF cs[1] = "open" THEN "none" ELSE "nil",
   sent |-> 0, buf |-> 0, closed |-> FALSE]

\* A monitorConnection goroutine at its start (osv.go 576-587): it registers
\* notifyClose on sb.conn; on a connection that is already closed the
\* registration hands back a closed channel, which reads as a nil error.
\* closeChan (buf, closed) is empty and open.
NewMonitor(c, cs) ==
  [conn |-> c, state |-> "running",
   notify |-> IF cs[c] = "open" THEN "none" ELSE "nil",
   sent |-> 0, buf |-> 0, closed |-> FALSE]

Retired ==
  [conn |-> 0, state |-> "done", notify |-> "none", sent |-> 0, buf |-> 0,
   closed |-> TRUE]

\* Mutant of MonitorFail: the failure is sent but the goroutine stays in its
\* loop.
MonitorFail_NoReturn(mon) ==
  [mon EXCEPT !.sent = @ + 1, !.buf = @ + 1, !.notify = "none"]

\* `closeChan <- true; return`, with the deferred close(closeChan).
MonitorFail(mon) ==
  [mon EXCEPT !.sent = @ + 1, !.buf = @ + 1, !.state = "done",
              !.notify = "none", !.closed = TRUE]

\* Mutant of MonitorQuit: the goroutine returns without closing closeChan.
MonitorQuit_NoClose(mon) == [mon EXCEPT !.state = "done", !.notify = "none"]

\* `return` without a send (graceful close), with the deferred close.
MonitorQuit(mon) ==
  [mon EXCEPT !.state = "done", !.notify = "none", !.closed = TRUE]

\* The broker connection c went away (cause "err": dropped with an error,
\* "nil": closed by conn.Close): its registered notifyClose receivers get
\* the cause.
NotifyMonitors(mons, c, cause) ==
  [i \in 1..Len(mons) |->
     IF mons[i].conn = c /\ mons[i].state = "running" /\ mons[i].notify = "none"
     THEN [mons[i] EXCEPT !.notify = cause]
     ELSE mons[i]]

\* One iteration of StartListening's loop: startQueueListener for queue k of
\* qs on connection c.  failStep names the call that fails ("none": all
\* succeed).  st holds chans, map (sb.channels) and err.
StartQueueListener(st, c, qs, k, failStep) ==
  CASE failStep \in {"channel", "qos"} ->
         [st EXCEPT !.err = TRUE]
    [] failStep = "declare" ->
         [st EXCEPT !.err = TRUE, !.map = MapPut(@, qs[k].Name, <<c, k>>)]
    [] failStep = "consume" ->
         [st EXCEPT !.err = TRUE, !.map = MapPut(@, qs[k].Name, <<c, k>>),
                    !.chans = @ \cup {[conn |-> c, q |-> k, consumer |-> FALSE]}]
    [] OTHER ->
         [st EXCEPT !.map = MapPut(@, qs[k].Name, <<c, k>>),
                    !.chans = @ \cup {[conn |-> c, q |-> k, consumer |-> TRUE]}]

\* StartListening: the queues in order from k on, stopping at the first
\* error (failAt = 0: no call fails).
RECURSIVE StartListeningFrom(_, _, _, _, _, _)
StartListeningFrom(st, c, qs, k, failAt, failStep) ==
  IF k > Len(qs) THEN st
  ELSE LET nx == StartQueueListener(st, c, qs, k,
                                    IF k = failAt THEN failStep ELSE "none")
       IN IF nx.err THEN nx
          ELSE StartListeningFrom(nx, c, qs, k + 1, failAt, failStep)

\* Mutant of Close: the broker connection is left open.
Close_KeepConn(st) ==
  LET mapped == {st.map[n] : n \in DOMAIN st.map}
  IN [st EXCEPT !.chans = {ch \in @ : <<ch.conn, ch.q>> \notin mapped},
                !.stores = [x \in Stores |->
                              IF @[x] = "open" THEN "closed" ELSE @[x]]]

\* Mutant of Close: the store handles are left open.
Close_KeepStores(st) ==
  LET mapped == {st.map[n] : n \in DOMAIN st.map}
      left == {ch \in st.chans : <<ch.conn, ch.q>> \notin mapped}
  IN [st EXCEPT !.chans = {ch \in left : ch.conn # st.conn},
                !.conns[st.conn] = "closed",
                !.monitors = NotifyMonitors(@, st.conn, "nil")]

\* Mutant of Close: the first close call that returns an error ends Close.
Close_StopAtError(st) ==
  LET mapped == {st.map[n] : n \in DOMAIN st.map}
      left == {ch \in st.chans : <<ch.conn, ch.q>> \notin mapped}
      chErr == \E x \in mapped :
                 ~\E ch \in st.chans : <<ch.conn, ch.q>> = x
  IN IF chErr THEN st
     ELSE IF st.conns[st.conn] # "open" THEN [st EXCEPT !.chans = left]
     ELSE [st EXCEPT !.chans = {ch \in left : ch.conn # st.conn},
                     !.conns[st.conn] = "closed",
                     !.stores = [x \in Stores |->
                                   IF @[x] = "open" THEN "closed" ELSE @[x]],
                     !.monitors = NotifyMonitors(@, st.conn, "nil")]

\* ServiceBase.Close: every channel of sb.channels, then sb.conn (which
\* closes whatever channel is still open on it and ends its consumers),
\* then the four stores of sb.DB.  st holds conn, stores, map, chans, conns,
\* monitors.
Close(st) ==
  LET mapped == {st.map[n] : n \in DOMAIN st.map}
      left == {ch \in st.chans : <<ch.conn, ch.q>> \notin mapped}
  IN [st EXCEPT !.chans = {ch \in left : ch.conn # st.conn},
                !.conns[st.conn] = "closed",
                !.stores = [x \in Stores |->
                              IF @[x] = "open" THEN "closed" ELSE @[x]],
                !.monitors = NotifyMonitors(@, st.conn, "nil")]

\* The close calls of Close(st) that return an error: ch.Close on a channel
\* that is closed already, conn.Close on a connection that is not open.
\* (Close of a store handle that is closed already returns nil.)
CloseErrors(st) ==
  {<<"channel", n>> : n \in {x \in DOMAIN st.map :
      ~\E ch \in st.chans : <<ch.conn, ch.q>> = st.map[x]}}
  \cup (IF st.conns[st.conn] # "open" THEN {<<"conn", st.conn>>} ELSE {})

\* What Close returns: the errors are logged, the result is nil.
CloseResult(st) == "nil"

SbState ==
  [conn |-> sbConn, stores |-> sbStores, map |-> sbChannels, chans |-> chans,
   conns |-> conns, monitors |-> monitors]

Running == mainPc \notin {"returned", "startFailed"}

InitLife ==
  /\ queues = <<>>
  /\ mainPc = "setup"
  /\ conns = <<"open">>
  /\ sbConn = 1
  /\ sbStores = AllOpen
  /\ dbLeaks = 0
  /\ sbChannels = EmptyMap
  /\ chans = {}
  /\ monitors = <<>>
  /\ sigChan = FALSE
  /\ attempts = <<>>
  /\ ParkedGen
  /\ ParkedEco
  /\ ParkedPrefetch
  /\ ParkedRace
  /\ ParkedPlugin
  /\ ParkedConsumer
  /\ ParkedUpdate
  /\ ParkedConnect
  /\ ParkedErrors
  /\ ParkedDelay

\* Mutant of AddQueue: the new entry is put in front of the list.
AddQueue_Prepend(qc) ==
  /\ mainPc = "setup"
  /\ Len(queues) < MaxQueues
  /\ queues' = <<qc>> \o queues
  /\ UNCHANGED <<mainPc, sbConn, sbStores, sbChannels, conns, dbLeaks, chans,
                 monitors, sigChan, attempts>>
  /\ UNCHANGED notLifeVars

\* AddQueue (osv.go 348-354): sb.queues = append(sb.queues, ...).
AddQueue(qc) ==
  /\ mainPc = "setup"
  /\ Len(queues) < MaxQueues
  /\ queues' = Append(queues, qc)
  /\ UNCHANGED <<mainPc, sbConn, sbStores, sbChannels, conns, dbLeaks, chans,
                 monitors, sigChan, attempts>>
  /\ UNCHANGED notLifeVars

\* Which failures the environment can produce in StartListening on a
\* connection in state cstate: on a connection that is gone the first
\* conn.Channel() fails.
ListenFailures(cstate, qs) ==
  IF cstate = "open"
  THEN {[failAt |-> 0, step |-> "none"]}
       \cup {[failAt |-> k, step |-> fs] : k \in 1..Len(qs), fs \in ListenSteps}
  ELSE IF qs = <<>> THEN {[failAt |-> 0, step |-> "none"]}
  ELSE {[failAt |-> 1, step |-> "channel"]}

\* The first StartListening, before WaitForever.
StartListening(f) ==
  /\ mainPc = "setup"
  /\ LET r == StartListeningFrom([chans |-> chans, map |-> sbChannels,
                                  err |-> FALSE],
                                 sbConn, queues, 1, f.failAt, f.step)
     IN /\ chans' = r.chans
        /\ sbChannels' = r.map
        /\ mainPc' = IF r.err THEN "startFailed" ELSE "top"
  /\ UNCHANGED <<queues, sbConn, sbStores, conns, dbLeaks, monitors, sigChan,
                 attempts>>
  /\ UNCHANGED notLifeVars

\* Head of the WaitForever loop: a new sigChan is registered with
\* signal.Notify, a new closeChan is made and a monitor started on it.
StartPass ==
  /\ mainPc = "top"
  /\ sigChan' = FALSE
  /\ monitors' = Append([i \in 1..Len(monitors) |->
                           IF monitors[i].state = "done" THEN Retired
                           ELSE monitors[i]],
                        NewMonitor(sbConn, conns))
  /\ mainPc' = "select"
  /\ UNCHANGED <<queues, sbConn, sbStores, sbChannels, conns, dbLeaks, chans,
                 attempts>>
  /\ UNCHANGED notLifeVars

\* `case sig := <-sigChan`: Close, return.
OnSignal ==
  /\ mainPc = "select"
  /\ sigChan
  /\ LET r == Close(SbState)
     IN /\ chans' = r.chans
        /\ conns' = r.conns
        /\ sbStores' = r.stores
        /\ monitors' = r.monitors
  /\ sigChan' = FALSE
  /\ mainPc' = "returned"
  /\ UNCHANGED <<queues, sbConn, sbChannels, dbLeaks, attempts>>
  /\ UNCHANGED notLifeVars

\* `case <-connClosed`: a value was sent or the channel was closed; Close,
\* then the 10 s sleep.
OnConnClosed ==
  /\ mainPc = "select"
  /\ LET cur == monitors[Len(monitors)]
     IN /\ cur.buf > 0 \/ cur.closed
        /\ LET r == Close([SbState EXCEPT
                             !.monitors[Len(monitors)].buf =
                               IF cur.buf > 0 THEN cur.buf - 1 ELSE 0])
           IN /\ chans' = r.chans
              /\ conns' = r.conns
              /\ sbStores' = r.stores
              /\ monitors' = r.monitors
  /\ mainPc' = "cooldown"
  /\ UNCHANGED <<queues, sbConn, sbChannels, dbLeaks, sigChan, attempts>>
  /\ UNCHANGED notLifeVars

\* How a call of restart can end: at the configuration reload, at the
\* store connections, at the broker dial, or in StartListening ("listen",
\* with the failing queue and call; failAt = 0: restart succeeds).
RestartOutcomes ==
  {[kind |-> kd, failAt |-> 0, step |-> "none"] : kd \in {"config", "db", "dial"}}
  \cup {[kind |-> "listen", failAt |-> f.failAt, step |-> f.step] :
          f \in ListenFailures("open", queues)}

\* Mutant of RestartError: a failure of StartListening is not returned.
RestartError_ListenIgnored(o, listenErr) == o.kind \in {"config", "db", "dial"}

\* Does restart return an error.
RestartError(o, listenErr) == o.kind \in {"config", "db", "dial"} \/ listenErr

\* After the 10 s sleep: restart(), and where its result sends the loop.
Restart(o) ==
  /\ mainPc = "cooldown"
  /\ Len(attempts) < MaxAttempts
  /\ LET newConns == IF o.kind = "listen" THEN Append(conns, "open") ELSE conns
         r == IF o.kind = "listen"
              THEN StartListeningFrom([chans |-> chans, map |-> EmptyMap,
                                       err |-> FALSE],
                                      Len(newConns), queues, 1, o.failAt, o.step)
              ELSE [chans |-> chans, map |-> sbChannels, err |-> FALSE]
         failed == RestartError(o, r.err)
     IN /\ sbStores' = IF o.kind \in {"dial", "listen"} THEN AllOpen ELSE sbStores
        /\ dbLeaks' = dbLeaks
                      + (IF o.kind = "db" THEN 1 ELSE 0)
                      + (IF o.kind \in {"dial", "listen"} /\ SomeOpen(sbStores)
                         THEN 1 ELSE 0)
        /\ conns' = newConns
        /\ sbConn' = IF o.kind = "listen" THEN Len(newConns) ELSE sbConn
        /\ chans' = r.chans
        /\ sbChannels' = r.map
        /\ attempts' = Append(attempts, IF failed THEN "fail" ELSE "ok")
        /\ mainPc' = IF failed THEN "backoff" ELSE "top"
  /\ UNCHANGED <<queues, monitors, sigChan>>
  /\ UNCHANGED notLifeVars

\* The 30 s sleep after a failed restart, then `continue`.
Backoff ==
  /\ mainPc = "backoff"
  /\ mainPc' = "top"
  /\ UNCHANGED <<queues, sbConn, sbStores, sbChannels, conns, dbLeaks, chans,
                 monitors, sigChan, attempts>>
  /\ UNCHANGED notLifeVars

\* monitorConnection, `case err := <-notifyClose`.
MonitorNotified(i) ==
  /\ monitors[i].state = "running"
  /\ monitors[i].notify # "none"
  /\ monitors[i].notify = "err" => monitors[i].buf = 0
  /\ monitors' = [monitors EXCEPT ![i] =
       IF @.notify = "err" THEN MonitorFail(@) ELSE MonitorQuit(@)]
  /\ UNCHANGED <<queues, mainPc, sbConn, sbStores, sbChannels, conns, dbLeaks,
                 chans, sigChan, attempts>>
  /\ UNCHANGED notLifeVars

\* monitorConnection, `case <-dbHealthTicker.C`: checkDatabaseHealth pings
\* the stores of sb.DB; a closed store fails its ping.
MonitorTick(i, pingsOk) ==
  /\ monitors[i].state = "running"
  /\ IF pingsOk /\ \A st \in Stores : sbStores[st] = "open"
     THEN UNCHANGED monitors
     ELSE /\ monitors[i].buf = 0
          /\ monitors' = [monitors EXCEPT ![i] = MonitorFail(@)]
  /\ UNCHANGED <<queues, mainPc, sbConn, sbStores, sbChannels, conns, dbLeaks,
                 chans, sigChan, attempts>>
  /\ UNCHANGED notLifeVars

\* The broker connection c drops with an error: its channels and consumers
\* end and its notifyClose receivers get the error.
BrokerDrop(c) ==
  /\ conns[c] = "open"
  /\ conns' = [conns EXCEPT ![c] = "lost"]
  /\ chans' = {ch \in chans : ch.conn # c}
  /\ monitors' = NotifyMonitors(monitors, c, "err")
  /\ UNCHANGED <<queues, mainPc, sbConn, sbStores, sbChannels, dbLeaks, sigChan,
                 attempts>>
  /\ UNCHANGED notLifeVars

\* The OS delivers SIGINT or SIGTERM to the channel registered by the
\* current pass (one-slot buffer; a signal that finds it full is dropped).
Signal ==
  /\ Running
  /\ ~sigChan
  /\ monitors # <<>>
  /\ sigChan' = TRUE
  /\ UNCHANGED <<queues, mainPc, sbConn, sbStores, sbChannels, conns, dbLeaks,
                 chans, monitors, attempts>>
  /\ UNCHANGED notLifeVars

Register == \E qc \in QueueArgs : AddQueue(qc)

Listen == \E f \in ListenFailures(conns[sbConn], queues) : StartListening(f)

Reconnect == \E o \in RestartOutcomes : Restart(o)

MonitorStep ==
  \E i \in 1..Len(monitors) :
    \/ MonitorNotified(i)
    \/ \E pingsOk \in BOOLEAN : MonitorTick(i, pingsOk)

ConnectionLost == \E c \in 1..Len(conns) : BrokerDrop(c)

NextLife ==
  \/ Register
  \/ Listen
  \/ StartPass
  \/ OnSignal
  \/ OnConnClosed
  \/ Reconnect
  \/ Backoff
  \/ MonitorStep
  \/ ConnectionLost
  \/ Signal

SpecLife == InitLife /\ [][NextLife]_vars

\* The goroutines are scheduled by the Go runtime: a monitor that can step
\* does, and a WaitForever blocked in its select with a ready case takes one.
SpecLifeFair ==
  /\ InitLife
  /\ [][NextLife]_vars
  /\ WF_vars(MonitorStep)
  /\ WF_vars(OnConnClosed)

(***************************************************************************)
(* Claims about the lifecycle.                                             *)
(***************************************************************************)
\* Queue k of qs has a channel with a running consumer on connection c.
HasConsumer(chs, c, k) == [conn |-> c, q |-> k, consumer |-> TRUE] \in chs

AllConsuming(chs, c, qs) == \A k \in 1..Len(qs) : HasConsumer(chs, c, k)

RunningMonitors(mons) == {i \in 1..Len(mons) : mons[i].state = "running"}

\* C6 (safety part): a reconnect attempt that restart reports as a success
\* has dialled a new broker connection and has left on it a consumer for
\* every registered queue, whatever the earlier attempts failed at, and the
\* loop goes from there back to its select.
C6_SuccessRestoresAllQueues ==
  [][/\ (mainPc = "cooldown" /\ attempts' = Append(attempts, "ok"))
          => /\ sbConn' = Len(conns') /\ sbConn' > Len(conns)
             /\ conns'[sbConn'] = "open"
             /\ AllConsuming(chans', sbConn', queues)
             /\ queues' = queues
             /\ mainPc' = "top"
     /\ (mainPc = "top" /\ mainPc' # "top") => mainPc' = "select"]_vars

\* C6 (progress part): a broker connection lost while WaitForever is in its
\* select takes the loop to the reconnect branch (or, when a termination
\* signal wins the race, to the return).
C6_ConnectionLossLeadsToReconnect ==
  (mainPc = "select" /\ conns[sbConn] = "lost")
    ~> (mainPc \in {"cooldown", "returned"})

\* C6: a closed broker connection drives WaitForever from its select to the
\* reconnect branch, and when two reconnect attempts fail and the third
\* succeeds the loop is back in its select with a consumer on the new
\* connection for every registered queue.
C6_ReconnectResumesAllQueues ==
  C6_SuccessRestoresAllQueues /\ C6_ConnectionLossLeadsToReconnect

C6_Witness ==
  /\ mainPc = "select"
  /\ attempts = <<"fail", "fail", "ok">>
  /\ Len(queues) = 2
  /\ sbConn > 1
  /\ AllConsuming(chans, sbConn, queues)

\* C7: after a failed reconnect attempt WaitForever is never blocked in its
\* select on a healthy connection (open broker connection, open stores, a
\* monitor with nothing to report, no pending signal) while a registered
\* queue has no consumer.
C7_FailedAttemptNeverSettles ==
  ~(/\ mainPc = "select"
    /\ attempts # <<>>
    /\ Last(attempts) = "fail"
    /\ conns[sbConn] = "open"
    /\ \A st \in Stores : sbStores[st] = "open"
    /\ ~sigChan
    /\ LET cur == Last(monitors)
       IN /\ cur.state = "running" /\ cur.conn = sbConn
          /\ cur.notify = "none" /\ cur.buf = 0 /\ ~cur.closed
    /\ ~AllConsuming(chans, sbConn, queues))

\* C8: the step that takes WaitForever from its select to its return on a
\* termination signal leaves no broker channel open, no broker connection
\* open and no store of sb.DB open; once WaitForever has returned no
\* reconnect attempt is made and no consumer or monitor is started.
C8_SignalClosesAllThenTerminal ==
  [][/\ (mainPc = "select" /\ mainPc' = "returned")
          => /\ sigChan
             /\ chans' = {}
             /\ \A c \in 1..Len(conns') : conns'[c] # "open"
             /\ \A st \in Stores : sbStores'[st] # "open"
     /\ mainPc = "returned"
          => /\ mainPc' = "returned"
             /\ attempts' = attempts
             /\ chans' \subseteq chans
             /\ Len(monitors') = Len(monitors)
             /\ RunningMonitors(monitors') \subseteq RunningMonitors(monitors)]_vars

C8_Witness ==
  /\ mainPc = "returned"
  /\ Len(queues) = 2
  /\ Len(attempts) > 0
  /\ Last(monitors).state = "done"
  /\ \A st \in Stores : sbStores[st] = "closed"

\* C9: a monitor sends on its closeChan at most once, the step in which it
\* sends is the step in which it ends, and a monitor that has ended neither
\* sends nor runs again.
C9_MonitorSignalsOnce ==
  [][\A i \in 1..Len(monitors) :
       LET a == monitors[i]
           b == monitors'[i]
       IN /\ b.sent <= 1
          /\ b.sent > a.sent => (a.state = "running" /\ b.state = "done")
          /\ a.state = "done" => (b.state = "done" /\ b.sent <= a.sent)]_vars

C9_Witness ==
  \E i \in 1..Len(monitors) :
    /\ monitors[i].sent = 1
    /\ monitors[i].state = "done"
    /\ i > 1

\* C10: every pass of the WaitForever loop starts one new monitor, bound to
\* the broker connection sb.conn holds at that moment, and at no moment is
\* more than one monitor running.
C10_OneFreshMonitorPerPass ==
  [][/\ (mainPc = "top" /\ mainPc' = "select")
          => /\ Len(monitors') = Len(monitors) + 1
             /\ Last(monitors').state = "running"
             /\ Last(monitors').conn = sbConn
             /\ Last(monitors').sent = 0
             /\ ~Last(monitors').closed
     /\ Len(monitors') > Len(monitors) => mainPc = "top"
     /\ Cardinality(RunningMonitors(monitors')) <= 1]_vars

C10_Witness ==
  /\ Len(monitors) = 3
  /\ sbConn > 1
  /\ RunningMonitors(monitors) = {3}
  /\ monitors[3].conn = sbConn
  /\ conns[sbConn] = "open"

(***************************************************************************)
(* Service construction: CreateServiceBaseWithName (osv.go 151-212) with   *)
(* connectServiceDatabases (266-337) and connectAMQP (339-346).  The       *)
(* environment fixes, for the length of the call, whether the              *)
(* configuration loads, which stores are reachable and whether the broker  *)
(* accepts the dial.  sql.OpenDB opens a handle without connecting: only   *)
(* Ping talks to the store.                                                *)
(***************************************************************************)
\* The environment variables loadDatabaseConfig requires (osv.go 886-904).
RequiredEnv == {"PG_DB_HOST", "PG_DB_PORT", "PG_DB_USER", "PG_DB_PASSWORD"}

Constructors == {"CreateServiceBaseWithName", "CreatePluginBase"}

ConnectEnvs ==
  [entry : Constructors, set : [RequiredEnv -> BOOLEAN], fileOk : BOOLEAN,
   up : [Stores -> BOOLEAN], brokerUp : BOOLEAN]

\* Mutant of LoadDatabaseConfig: the password may be left out.
LoadDatabaseConfig_PasswordOptional(env) ==
  [err |-> \E v \in RequiredEnv \ {"PG_DB_PASSWORD"} : ~env.set[v]]

\* loadDatabaseConfig (osv.go 883-923): an error when a required variable
\* is empty or not set.
LoadDatabaseConfig(env) == [err |-> \E v \in RequiredEnv : ~env.set[v]]

\* CreateConfigService (osv.go 858-880): loadAMQPConfig and
\* loadGeneralConfig fall back to defaults and never fail.
CreateConfigService(env) == [err |-> LoadDatabaseConfig(env).err]

\* The stores initializeDatabases connects, in the order of the code
\* (plugin_base.go 320-347).
PluginStores == <<"CodeClarity", "Knowledge", "Plugins">>

\* Mutant of InitializeDatabases: the handles opened before a failure are
\* not closed.
InitializeDatabases_LeavesOpen(env) ==
  IF \A i \in 1..Len(PluginStores) : env.up[PluginStores[i]]
  THEN [err |-> FALSE,
        pinged |-> {PluginStores[i] : i \in 1..Len(PluginStores)},
        handles |-> {PluginStores[i] : i \in 1..Len(PluginStores)}]
  ELSE LET k == CHOOSE i \in 1..Len(PluginStores) :
                  /\ ~env.up[PluginStores[i]]
                  /\ \A j \in 1..(i - 1) : env.up[PluginStores[j]]
       IN [err |-> TRUE, pinged |-> {PluginStores[j] : j \in 1..(k - 1)},
           handles |-> {PluginStores[j] : j \in 1..(k - 1)}]

\* initializeDatabases: each handle is opened and pinged by
\* createDatabaseConnection, which closes it when the Ping fails; the
\* handles opened before a failure are closed as well.
InitializeDatabases(env) ==
  IF \A i \in 1..Len(PluginStores) : env.up[PluginStores[i]]
  THEN [err |-> FALSE,
        pinged |-> {PluginStores[i] : i \in 1..Len(PluginStores)},
        handles |-> {PluginStores[i] : i \in 1..Len(PluginStores)}]
  ELSE LET k == CHOOSE i \in 1..Len(PluginStores) :
                  /\ ~env.up[PluginStores[i]]
                  /\ \A j \in 1..(i - 1) : env.up[PluginStores[j]]
       IN [err |-> TRUE, pinged |-> {PluginStores[j] : j \in 1..(k - 1)},
           handles |-> {}]

\* The stores connectServiceDatabases pings, in the order of the code.
PingedStores == <<"CodeClarity">>

\* connectServiceDatabases: the CodeClarity handle is opened and pinged; on
\* a failed Ping the function returns the error (the handle stays as it
\* is); otherwise the Knowledge, Plugins and Config handles are opened and
\* the four are returned.
ConnectServiceDatabases(env) ==
  IF \A i \in 1..Len(PingedStores) : env.up[PingedStores[i]]
  THEN [err |-> FALSE,
        pinged |-> {PingedStores[i] : i \in 1..Len(PingedStores)},
        handles |-> Stores]
  ELSE [err |-> TRUE, pinged |-> {}, handles |-> {"CodeClarity"}]

InitConnect ==
  /\ cnEnv \in ConnectEnvs
  /\ cnPc = "config"
  /\ cnPinged = {}
  /\ cnHandles = {}
  /\ cnConn = FALSE
  /\ cnRet = "none"
  /\ ParkedGen
  /\ ParkedEco
  /\ ParkedPrefetch
  /\ ParkedRace
  /\ ParkedPlugin
  /\ ParkedConsumer
  /\ ParkedUpdate
  /\ ParkedLife
  /\ ParkedErrors
  /\ ParkedDelay

\* CreateConfigService and the error return on its failure, in either
\* constructor (osv.go 152-155, plugin_base.go 56-59).
ConnectConfig ==
  /\ cnPc = "config"
  /\ IF ~CreateConfigService(cnEnv).err
     THEN /\ cnPc' = IF cnEnv.entry = "CreatePluginBase" THEN "pluginconfig"
                     ELSE "db"
          /\ cnRet' = cnRet
     ELSE cnPc' = "done" /\ cnRet' = "err"
  /\ UNCHANGED <<cnEnv, cnPinged, cnHandles, cnConn>>
  /\ UNCHANGED notConnVars

\* connectServiceDatabases and the error return on its failure.
ConnectDatabases ==
  /\ cnPc = "db"
  /\ LET r == ConnectServiceDatabases(cnEnv)
     IN /\ cnPinged' = r.pinged
        /\ cnHandles' = r.handles
        /\ IF r.err
           THEN cnPc' = "done" /\ cnRet' = "err"
           ELSE cnPc' = "amqp" /\ cnRet' = cnRet
  /\ UNCHANGED <<cnEnv, cnConn>>
  /\ UNCHANGED notConnVars

\* connectAMQP, and after it the construction of the ServiceBase value.
ConnectAMQP ==
  /\ cnPc = "amqp"
  /\ cnConn' = cnEnv.brokerUp
  /\ cnRet' = IF cnEnv.brokerUp THEN "sb" ELSE "err"
  /\ cnPc' = "done"
  /\ UNCHANGED <<cnEnv, cnPinged, cnHandles>>
  /\ UNCHANGED notConnVars

\* readPluginConfig and the error return on its failure.
PluginReadConfig ==
  /\ cnPc = "pluginconfig"
  /\ IF cnEnv.fileOk
     THEN cnPc' = "plugindb" /\ cnRet' = cnRet
     ELSE cnPc' = "done" /\ cnRet' = "err"
  /\ UNCHANGED <<cnEnv, cnPinged, cnHandles, cnConn>>
  /\ UNCHANGED notConnVars

\* initializeDatabases, and after it the construction of the PluginBase
\* value (a failed registration of the plugin is logged and ignored).
PluginDatabasesInit ==
  /\ cnPc = "plugindb"
  /\ LET r == InitializeDatabases(cnEnv)
     IN /\ cnPinged' = r.pinged
        /\ cnHandles' = r.handles
        /\ cnRet' = IF r.err THEN "err" ELSE "pb"
  /\ cnPc' = "done"
  /\ UNCHANGED <<cnEnv, cnConn>>
  /\ UNCHANGED notConnVars

\* PluginBase.Close (plugin_base.go 269-295) on the value CreatePluginBase
\* returned: each of the three handles is closed, and the close errors are
\* collected into the returned error (ok: none occurred).  The handles are
\* never nil on a returned PluginBase; closing a closed handle again
\* answers nil.
PluginClose(ok) ==
  /\ cnRet = "pb"
  /\ cnPc \in {"done", "closed", "closeerrors"}
  /\ cnHandles = {} => ok
  /\ cnHandles' = {}
  /\ cnPc' = IF ok THEN "closed" ELSE "closeerrors"
  /\ UNCHANGED <<cnEnv, cnPinged, cnConn, cnRet>>
  /\ UNCHANGED notConnVars

NextConnect ==
  \/ ConnectConfig
  \/ ConnectDatabases
  \/ ConnectAMQP
  \/ PluginReadConfig
  \/ PluginDatabasesInit
  \/ \E ok \in BOOLEAN : PluginClose(ok)

SpecConnect == InitConnect /\ [][NextConnect]_vars

\* C11: CreateServiceBaseWithName returns a ServiceBase only when each of
\* the four stores has answered a Ping and the broker connection is
\* established; with one store unreachable it returns an error.
C11_ConnectProbesEveryStore ==
  cnRet = "sb"
    => /\ cnPinged = Stores
       /\ \A st \in Stores : cnEnv.up[st]
       /\ cnConn

\* A required variable is missing from the environment of the call.
ConfigMissing == \E v \in RequiredEnv : ~cnEnv.set[v]

\* No store is pinged or opened, no broker connection dialled and no other
\* value returned in the step.
NothingTriedAgain ==
  /\ cnPinged' = cnPinged
  /\ cnConn' = cnConn
  /\ cnHandles' \subseteq cnHandles
  /\ cnRet' = cnRet

\* C26: with one of PG_DB_HOST, PG_DB_PORT, PG_DB_USER, PG_DB_PASSWORD
\* missing, CreateServiceBaseWithName and CreatePluginBase return an error
\* without having opened a store handle or a broker connection, and once
\* they have returned nothing is tried again.
C26_ConfigErrorAbortsStartup ==
  /\ [](ConfigMissing =>
         /\ cnPc \in {"config", "done"}
         /\ cnPc = "done" => cnRet = "err"
         /\ cnHandles = {}
         /\ cnPinged = {}
         /\ ~cnConn)
  /\ [][(cnPc = "done" \/ cnPc = "closed" \/ cnPc = "closeerrors")
          => NothingTriedAgain]_vars

\* CreatePluginBase has returned an error with only the password missing
\* and every store and the broker reachable.
C26_Witness ==
  /\ cnEnv.entry = "CreatePluginBase"
  /\ cnEnv.set = [v \in RequiredEnv |-> v # "PG_DB_PASSWORD"]
  /\ cnEnv.fileOk /\ cnEnv.brokerUp /\ \A st \in Stores : cnEnv.up[st]
  /\ cnPc = "done"
  /\ cnRet = "err"

\* Everything sb holds in st is closed: no channel of sb.channels or of
\* sb.conn is open, sb.conn is closed, no store of sb.DB is open.
AllClosed(st) ==
  /\ \A ch \in st.chans :
       /\ ch.conn # st.conn
       /\ \A n \in DOMAIN st.map : st.map[n] # <<ch.conn, ch.q>>
  /\ st.conns[st.conn] = "closed"
  /\ \A x \in Stores : st.stores[x] # "open"

\* C12: from every state the service reaches, Close leaves every channel,
\* the connection and every store of sb closed and returns nil, also when
\* some of its close calls return errors, and a second Close changes
\* nothing and returns nil again.
C12_CloseIdempotent ==
  LET once == Close(SbState)
      twice == Close(once)
  IN /\ AllClosed(once)
     /\ CloseResult(SbState) = "nil"
     /\ twice = once
     /\ CloseResult(once) = "nil"

\* WaitForever has closed the same connection and stores twice (at the
\* connection loss and again at the signal after a failed restart), the
\* second time with close calls that returned errors.
C12_Witness ==
  /\ mainPc = "returned"
  /\ attempts = <<"fail">>
  /\ sbConn = 1
  /\ Len(queues) = 2
  /\ CloseErrors(SbState) # {}
  /\ AllClosed(SbState)

(***************************************************************************)
(* Error classification and retry policy (error_handling.go).  A fault is  *)
(* a Go error value, told apart by kind: the nil interface ("nil"), a nil  *)
(* *EcosystemError inside a non-nil interface ("nilptr"), an error of      *)
(* another type ("raw") or a *EcosystemError ("ecos").  Timestamp, StackTrace, AnalysisID and   *)
(* Metadata play no part in the functions modelled and are left out.       *)
(***************************************************************************)
ErrorSeverities == {"low", "medium", "high", "critical"}

ErrorCategories ==
  {"database", "network", "validation", "processing", "configuration",
   "external", "unknown"}

RawFaults == {[kind |-> "raw", text |-> t] : t \in {"EOF", "timeout"}}

NilError == [kind |-> "nil"]

NilPointer == [kind |-> "nilptr"]

\* A call that ends in a run-time panic.
Panics == [kind |-> "panic"]

Causes == {NilError, [kind |-> "raw", text |-> "EOF"]}

\* The *EcosystemError values callers hand in.
EcosystemErrors ==
  [kind : {"ecos"}, Message : {"scan failed"}, Cause : Causes,
   Ecosystem : {"", "npm"}, Plugin : {"", "js-sbom"}, Stage : {"", "parse"},
   Severity : {"medium", "critical"},
   Category : {"configuration", "processing", "unknown"},
   Recoverable : BOOLEAN]

Faults == {NilError, NilPointer} \cup RawFaults \cup EcosystemErrors

\* NewErrorHandler(pluginName, ecosystem).
ErrorHandlers ==
  [pluginName : {"", "license-finder"}, ecosystem : {"", "multi-language"}]

StageArgs == {"", "vulnerability_processing"}

Strategies ==
  [MaxRetries : {0, 1, 3}, RecoverableOnly : BOOLEAN]

\* err.Error() of a fault of another type: its text.
ErrorText(err) == err.text

\* Mutant of NewProcessingError: the defaults of NewEcosystemError.
NewProcessingError_Defaults(message, cause, ecosystem, plugin, stage) ==
  [kind |-> "ecos", Message |-> message, Cause |-> cause,
   Ecosystem |-> ecosystem, Plugin |-> plugin, Stage |-> stage,
   Severity |-> "medium", Category |-> "unknown", Recoverable |-> FALSE]

\* NewProcessingError: the builder chain WithCause ... WithRecoverable(true).
NewProcessingError(message, cause, ecosystem, plugin, stage) ==
  [kind |-> "ecos", Message |-> message, Cause |-> cause,
   Ecosystem |-> ecosystem, Plugin |-> plugin, Stage |-> stage,
   Severity |-> "medium", Category |-> "processing", Recoverable |-> TRUE]

\* Mutant of HandleError: the context of a structured error is overwritten.
HandleError_Overwrite(eh, err, stage) ==
  CASE err.kind = "nil" -> [out |-> NilError, fault |-> err]
    [] err.kind = "nilptr" -> [out |-> Panics, fault |-> err]
    [] err.kind = "ecos" ->
         LET e == [err EXCEPT !.Ecosystem = eh.ecosystem,
                              !.Plugin = eh.pluginName, !.Stage = stage]
         IN [out |-> e, fault |-> e]
    [] OTHER ->
         [out |-> NewProcessingError(ErrorText(err), err, eh.ecosystem,
                                     eh.pluginName, stage),
          fault |-> err]

\* ErrorHandler.HandleError(err, stage): out is what it returns, fault the
\* caller's error value afterwards (a *EcosystemError is filled in place and
\* returned itself).  A nil *EcosystemError passes `err == nil` and the type
\* assertion, and its first field access faults.
HandleError(eh, err, stage) ==
  CASE err.kind = "nil" -> [out |-> NilError, fault |-> err]
    [] err.kind = "nilptr" -> [out |-> Panics, fault |-> err]
    [] err.kind = "ecos" ->
         LET e == [err EXCEPT
                     !.Ecosystem = IF @ = "" THEN eh.ecosystem ELSE @,
                     !.Plugin = IF @ = "" THEN eh.pluginName ELSE @,
                     !.Stage = IF @ = "" THEN stage ELSE @]
         IN [out |-> e, fault |-> e]
    [] OTHER ->
         [out |-> NewProcessingError(ErrorText(err), err, eh.ecosystem,
                                     eh.pluginName, stage),
          fault |-> err]

\* Mutant of ShouldRetry: one attempt more than MaxRetries.
ShouldRetry_OneMore(strategy, err, attemptCount) ==
  IF attemptCount > strategy.MaxRetries THEN [panic |-> FALSE, retry |-> FALSE]
  ELSE IF err.kind = "nilptr" THEN [panic |-> TRUE, retry |-> FALSE]
  ELSE IF strategy.RecoverableOnly /\ ~err.Recoverable
       THEN [panic |-> FALSE, retry |-> FALSE]
  ELSE IF err.Category = "configuration" /\ err.Severity = "critical"
       THEN [panic |-> FALSE, retry |-> FALSE]
  ELSE [panic |-> FALSE, retry |-> TRUE]

\* Mutant of ShouldRetry: no configuration error is retried.
ShouldRetry_AnyConfiguration(strategy, err, attemptCount) ==
  IF attemptCount >= strategy.MaxRetries THEN [panic |-> FALSE, retry |-> FALSE]
  ELSE IF err.kind = "nilptr" THEN [panic |-> TRUE, retry |-> FALSE]
  ELSE IF strategy.RecoverableOnly /\ ~err.Recoverable
       THEN [panic |-> FALSE, retry |-> FALSE]
  ELSE IF err.Category = "configuration"
       THEN [panic |-> FALSE, retry |-> FALSE]
  ELSE [panic |-> FALSE, retry |-> TRUE]

\* ErrorRecoveryStrategy.ShouldRetry(err, attemptCount), err a
\* *EcosystemError (nil pointer: "nilptr", whose first field access faults).
\* The result is the bool returned (retry), or a panic.
ShouldRetry(strategy, err, attemptCount) ==
  IF attemptCount >= strategy.MaxRetries THEN [panic |-> FALSE, retry |-> FALSE]
  ELSE IF err.kind = "nilptr" THEN [panic |-> TRUE, retry |-> FALSE]
  ELSE IF strategy.RecoverableOnly /\ ~err.Recoverable
       THEN [panic |-> FALSE, retry |-> FALSE]
  ELSE IF err.Category = "configuration" /\ err.Severity = "critical"
       THEN [panic |-> FALSE, retry |-> FALSE]
  ELSE [panic |-> FALSE, retry |-> TRUE]

InitErrors ==
  /\ erFault \in Faults
  /\ erLast = [op |-> "none"]
  /\ erCalls = 0
  /\ ParkedGen
  /\ ParkedEco
  /\ ParkedPrefetch
  /\ ParkedRace
  /\ ParkedPlugin
  /\ ParkedConsumer
  /\ ParkedUpdate
  /\ ParkedLife
  /\ ParkedConnect
  /\ ParkedDelay

\* A caller classifies the fault it holds.
CallHandleError(eh, stage) ==
  /\ erCalls < MaxErrCalls
  /\ LET r == HandleError(eh, erFault, stage)
     IN /\ erFault' = r.fault
        /\ erLast' = [op |-> "HandleError", eh |-> eh, stage |-> stage,
                      fault |-> erFault, out |-> r.out]
  /\ erCalls' = erCalls + 1
  /\ UNCHANGED notErrVars

\* A caller asks the policy about the structured error it holds.
CallShouldRetry(strategy, attemptCount) ==
  /\ erCalls < MaxErrCalls
  /\ erFault.kind \in {"nilptr", "ecos"}
  /\ erLast' = [op |-> "ShouldRetry", strategy |-> strategy,
                n |-> attemptCount, fault |-> erFault,
                out |-> ShouldRetry(strategy, erFault, attemptCount)]
  /\ erCalls' = erCalls + 1
  /\ UNCHANGED erFault
  /\ UNCHANGED notErrVars

Classify == \E eh \in ErrorHandlers, stage \in StageArgs : CallHandleError(eh, stage)

AskRetry ==
  \E strategy \in Strategies, n \in -1..MaxAttemptCount :
    CallShouldRetry(strategy, n)

NextErrors ==
  \/ Classify
  \/ AskRetry

SpecErrors == InitErrors /\ [][NextErrors]_vars

IsEcos(f) == f.kind = "ecos"

\* C13: ShouldRetry answers false whenever attemptCount >= MaxRetries,
\* whatever the error and the RecoverableOnly flag.
C13_NoRetryFromMaxRetries ==
  (erLast.op = "ShouldRetry" /\ erLast.n >= erLast.strategy.MaxRetries)
    => erLast.out = [panic |-> FALSE, retry |-> FALSE]

C13_Witness ==
  /\ erLast.op = "ShouldRetry"
  /\ erLast.n = erLast.strategy.MaxRetries
  /\ erLast.strategy.MaxRetries = 3
  /\ ~erLast.strategy.RecoverableOnly
  /\ IsEcos(erLast.fault)
  /\ erLast.fault.Recoverable
  /\ erLast.fault.Category = "processing"
  /\ ~erLast.out.retry

\* C14: below MaxRetries ShouldRetry answers false exactly when the strategy
\* is recoverable-only and the error is not recoverable, or the error is a
\* critical configuration error; it answers true otherwise.
C14_RetryDecisionBelowMax ==
  (erLast.op = "ShouldRetry" /\ erLast.n < erLast.strategy.MaxRetries
     /\ IsEcos(erLast.fault))
    => LET e == erLast.fault
           refused == \/ erLast.strategy.RecoverableOnly /\ ~e.Recoverable
                      \/ e.Category = "configuration" /\ e.Severity = "critical"
       IN ~erLast.out.panic /\ erLast.out.retry = ~refused

C14_Witness ==
  /\ erLast.op = "ShouldRetry"
  /\ erLast.n < erLast.strategy.MaxRetries
  /\ IsEcos(erLast.fault)
  /\ erLast.fault.Category = "configuration"
  /\ erLast.fault.Severity = "medium"
  /\ ~erLast.fault.Recoverable
  /\ ~erLast.strategy.RecoverableOnly
  /\ erLast.out.retry

\* The step is a call of HandleError on a structured error.
HandleErrorOnEcos ==
  /\ erCalls' = erCalls + 1
  /\ erLast'.op = "HandleError"
  /\ IsEcos(erFault)

\* HandleError fills each empty context field from the handler and the
\* stage, keeps every context field that is set, keeps the other fields,
\* and returns the error it was given.
FillsOnlyEmptyContext ==
  LET e == erFault
      r == erFault'
  IN /\ erLast'.out = r
     /\ r.Ecosystem = (IF e.Ecosystem = "" THEN erLast'.eh.ecosystem
                       ELSE e.Ecosystem)
     /\ r.Plugin = (IF e.Plugin = "" THEN erLast'.eh.pluginName ELSE e.Plugin)
     /\ r.Stage = (IF e.Stage = "" THEN erLast'.stage ELSE e.Stage)
     /\ r.Message = e.Message /\ r.Cause = e.Cause
     /\ r.Severity = e.Severity /\ r.Category = e.Category
     /\ r.Recoverable = e.Recoverable

\* C16 as claimed: HandleError on a structured error fills only the empty
\* context fields and keeps the rest, and a second application, with any
\* handler and stage, changes nothing.
C16_FillsEmptyThenFixed ==
  [][HandleErrorOnEcos
       => /\ FillsOnlyEmptyContext
          /\ erLast.op = "HandleError" => erFault' = erFault]_vars

\* C16 as amended: HandleError on a structured error fills only the empty
\* context fields and keeps the rest, and a second application changes
\* nothing when the first was made with a non-empty ecosystem, plugin name
\* and stage (an empty one leaves its field empty for a later call to fill).
C16_FillsEmptyThenFixedOnceSet ==
  [][HandleErrorOnEcos
       => /\ FillsOnlyEmptyContext
          /\ (/\ erLast.op = "HandleError"
              /\ erLast.eh.ecosystem # ""
              /\ erLast.eh.pluginName # ""
              /\ erLast.stage # "")
               => erFault' = erFault]_vars

\* A second HandleError, with another plugin name and stage, on an error
\* whose ecosystem the first call filled: nothing changes.
C16_Witness ==
  /\ erCalls = 2
  /\ erLast.op = "HandleError"
  /\ IsEcos(erLast.fault)
  /\ erLast.eh.pluginName = "license-finder"
  /\ erLast.stage = "vulnerability_processing"
  /\ erLast.fault.Ecosystem = "multi-language"
  /\ erLast.fault.Plugin = "js-sbom"
  /\ erLast.fault.Stage = "parse"
  /\ erFault = erLast.fault

\* C17: HandleError on a fault of another type returns a processing error of
\* medium severity, recoverable, with the fault as cause, the fault's text
\* as message, and the handler's ecosystem and plugin name and the stage as
\* context; on nil it returns nil.
C17_WrapsRawFault ==
  erLast.op = "HandleError"
    => /\ erLast.fault.kind = "raw"
            => /\ IsEcos(erLast.out)
               /\ erLast.out.Category = "processing"
               /\ erLast.out.Severity = "medium"
               /\ erLast.out.Recoverable
               /\ erLast.out.Cause = erLast.fault
               /\ erLast.out.Message = erLast.fault.text
               /\ erLast.out.Ecosystem = erLast.eh.ecosystem
               /\ erLast.out.Plugin = erLast.eh.pluginName
               /\ erLast.out.Stage = erLast.stage
       /\ erLast.fault.kind = "nil" => erLast.out.kind = "nil"

C17_Witness ==
  /\ erLast.op = "HandleError"
  /\ erLast.fault.kind = "raw"
  /\ erLast.eh = [pluginName |-> "license-finder", ecosystem |-> "multi-language"]
  /\ erLast.stage = "vulnerability_processing"
  /\ IsEcos(erLast.out)
  /\ erLast.out.Category = "processing"

(***************************************************************************)
(* GetRetryDelay (error_handling.go 315-327) computes in float64 and       *)
(* converts the product to time.Duration (int64 nanoseconds).  The values  *)
(* exceed the integers of the model checker, so a natural number is a      *)
(* sequence of limbs, least significant first, without leading zero limbs  *)
(* (<<>> is 0).  With a non-negative delay and a non-negative whole        *)
(* backoff factor every float64 value of the computation is a whole        *)
(* number, kept as the natural number it equals; float64 arithmetic is the *)
(* exact result rounded to 53 significant bits, ties to even.              *)
(***************************************************************************)
LimbBase == 2^15

RECURSIVE NatOf(_)
NatOf(i) == IF i = 0 THEN <<>> ELSE <<i % LimbBase>> \o NatOf(i \div LimbBase)

RECURSIVE NatTrim(_)
NatTrim(a) ==
  IF a # <<>> /\ a[Len(a)] = 0 THEN NatTrim(SubSeq(a, 1, Len(a) - 1)) ELSE a

RECURSIVE NatMulCarry(_, _, _)
NatMulCarry(a, k, carry) ==
  IF a = <<>> THEN NatOf(carry)
  ELSE LET v == a[1] * k + carry
       IN <<v % LimbBase>> \o NatMulCarry(Tail(a), k, v \div LimbBase)

\* a * k for 0 <= k < LimbBase.
NatMulSmall(a, k) == NatTrim(NatMulCarry(a, k, 0))

RECURSIVE NatAddCarry(_, _, _)
NatAddCarry(a, b, carry) ==
  IF a = <<>> /\ b = <<>> THEN NatOf(carry)
  ELSE LET x == IF a = <<>> THEN 0 ELSE a[1]
           y == IF b = <<>> THEN 0 ELSE b[1]
           v == x + y + carry
       IN <<v % LimbBase>>
          \o NatAddCarry(IF a = <<>> THEN a ELSE Tail(a),
                         IF b = <<>> THEN b ELSE Tail(b), v \div LimbBase)

NatAdd(a, b) == NatTrim(NatAddCarry(a, b, 0))

RECURSIVE NatMul(_, _)
NatMul(a, b) ==
  IF b = <<>> \/ a = <<>> THEN <<>>
  ELSE LET rest == NatMul(a, Tail(b))
       IN NatAdd(NatMulSmall(a, b[1]),
                 IF rest = <<>> THEN rest ELSE <<0>> \o rest)

RECURSIVE NatLess(_, _)
NatLess(a, b) ==
  IF Len(a) # Len(b) THEN Len(a) < Len(b)
  ELSE IF a = <<>> THEN FALSE
  ELSE IF a[Len(a)] # b[Len(b)] THEN a[Len(a)] < b[Len(b)]
  ELSE NatLess(NatTrim(SubSeq(a, 1, Len(a) - 1)),
               NatTrim(SubSeq(b, 1, Len(b) - 1)))

NatOdd(a) == a # <<>> /\ a[1] % 2 = 1

\* Bits per limb.
LimbBits == CHOOSE k \in 1..30 : 2^k = LimbBase

\* a * 2^k.
NatShiftLeft(a, k) ==
  LET shifted == NatMulSmall(a, 2^(k % LimbBits))
  IN IF shifted = <<>> THEN shifted
     ELSE [i \in 1..(k \div LimbBits) |-> 0] \o shifted

NatPow2(k) == NatShiftLeft(<<1>>, k)

\* Number of significant bits of a.
NatBitLen(a) ==
  IF a = <<>> THEN 0
  ELSE LimbBits * (Len(a) - 1)
       + (CHOOSE k \in 1..LimbBits : 2^(k - 1) <= a[Len(a)] /\ a[Len(a)] < 2^k)

\* Bit i (from 0) of a.
NatBit(a, i) ==
  IF i \div LimbBits + 1 > Len(a) THEN 0
  ELSE (a[i \div LimbBits + 1] \div 2^(i % LimbBits)) % 2

\* a \div 2^k.
NatShiftRight(a, k) ==
  LET w == k \div LimbBits
      b == k % LimbBits
      limb(i) == IF i > Len(a) THEN 0 ELSE a[i]
  IN NatTrim([i \in 1..(IF Len(a) > w THEN Len(a) - w ELSE 0) |->
                limb(i + w) \div 2^b
                + (limb(i + w + 1) % 2^b) * 2^(LimbBits - b)])

\* Significant bits of a float64, and value bits of an int64.
MantissaBits == 53
DurationBits == 63

\* a shifted right by sh bits (sh > 0), with the last bit shifted out
\* (guard) and whether any bit below it was set (sticky).
RoundShift(a, sh) ==
  [q |-> NatShiftRight(a, sh),
   guard |-> NatBit(a, sh - 1) = 1,
   sticky |-> \E j \in 0..(sh - 2) : NatBit(a, j) = 1]

\* Mutant of RoundFloat64: whole numbers are never rounded.
RoundFloat64_Exact(a) == a

\* The float64 nearest to the whole number a (round to nearest, ties to
\* even), as the whole number it is.
RoundFloat64(a) ==
  LET sh == NatBitLen(a) - MantissaBits
  IN IF sh <= 0 THEN a
     ELSE LET r == RoundShift(a, sh)
              up == r.guard /\ (r.sticky \/ NatOdd(r.q))
          IN NatShiftLeft(IF up THEN NatAdd(r.q, <<1>>) ELSE r.q, sh)

\* The loop `multiplier *= strategy.BackoffFactor`, i times from m (a
\* multiplier of 0 stays 0).
RECURSIVE Multiplier(_, _, _)
Multiplier(m, factor, i) ==
  IF i = 0 \/ m = <<>> THEN m
  ELSE Multiplier(RoundFloat64(NatMulSmall(m, factor)), factor, i - 1)

\* time.Duration(f) for a float64 f that is a whole number: f itself when
\* it fits an int64; otherwise the conversion's result is left to the
\* implementation (defined = FALSE).
DurationOf(f) ==
  IF NatLess(f, NatPow2(DurationBits)) THEN [defined |-> TRUE, ns |-> f]
  ELSE [defined |-> FALSE, ns |-> <<>>]

\* The strategies GetRetryDelay is called on: RetryDelay in nanoseconds
\* (0, 1 ns, 3 ns, 1 s as in DefaultRecoveryStrategy), BackoffFactor a
\* whole float64.
DelayStrategies == [RetryDelay : {0, 1, 3, 10^9}, BackoffFactor : {1, 2, 3}]

\* Mutant of GetRetryDelay: the loop runs one time too few.
GetRetryDelay_OneLess(strategy, attemptCount) ==
  IF attemptCount <= 0
  THEN [defined |-> TRUE, ns |-> NatOf(strategy.RetryDelay)]
  ELSE DurationOf(RoundFloat64(
         NatMul(RoundFloat64(NatOf(strategy.RetryDelay)),
                Multiplier(<<1>>, strategy.BackoffFactor, attemptCount - 1))))

\* ErrorRecoveryStrategy.GetRetryDelay(attemptCount).
GetRetryDelay(strategy, attemptCount) ==
  IF attemptCount <= 0
  THEN [defined |-> TRUE, ns |-> NatOf(strategy.RetryDelay)]
  ELSE DurationOf(RoundFloat64(
         NatMul(RoundFloat64(NatOf(strategy.RetryDelay)),
                Multiplier(<<1>>, strategy.BackoffFactor, attemptCount))))

InitDelay ==
  /\ rdLast = [op |-> "none"]
  /\ ParkedGen
  /\ ParkedEco
  /\ ParkedPrefetch
  /\ ParkedRace
  /\ ParkedPlugin
  /\ ParkedConsumer
  /\ ParkedUpdate
  /\ ParkedLife
  /\ ParkedConnect
  /\ ParkedErrors

\* One call of GetRetryDelay (a pure function: each behaviour makes one).
CallGetRetryDelay(strategy, attemptCount) ==
  /\ rdLast.op = "none"
  /\ rdLast' = [op |-> "GetRetryDelay", strategy |-> strategy,
                n |-> attemptCount,
                out |-> GetRetryDelay(strategy, attemptCount)]
  /\ UNCHANGED notDelayVars

NextDelay ==
  \E strategy \in DelayStrategies, n \in -1..MaxDelayAttempt :
    CallGetRetryDelay(strategy, n)

SpecDelay == InitDelay /\ [][NextDelay]_vars

\* baseDelay * backoffFactor^n and backoffFactor^n, in exact arithmetic.
RECURSIVE NatPowFrom(_, _, _)
NatPowFrom(acc, k, n) ==
  IF n = 0 \/ acc = <<>> THEN acc ELSE NatPowFrom(NatMulSmall(acc, k), k, n - 1)

NatPow(k, n) == NatPowFrom(<<1>>, k, n)

ExactDelay(strategy, n) ==
  NatMul(NatOf(strategy.RetryDelay), NatPow(strategy.BackoffFactor, n))

NatLeq(a, b) == ~NatLess(b, a)

\* The delay does not decrease from n to n + 1 when the factor is >= 1 and
\* neither value overflows the duration type.
DelayNonDecreasing ==
  LET nxt == GetRetryDelay(rdLast.strategy, rdLast.n + 1)
  IN (rdLast.strategy.BackoffFactor >= 1 /\ rdLast.out.defined /\ nxt.defined)
       => NatLeq(rdLast.out.ns, nxt.ns)

PluginName == "js-sbom"

\* Message bodies: a DispatcherPluginMessage for the job, or bytes that
\* json.Unmarshal rejects.
PluginMessages ==
  { [valid |-> TRUE, AnalysisId |-> "job-1"],
    [valid |-> FALSE, AnalysisId |-> ""] }

\* Values of the map[string]any results the model tells apart.
NilResult == [kind |-> "nil", sbomKey |-> 0]

EmptyResult == [kind |-> "empty", sbomKey |-> 0]

NoHandlerRet ==
  [kind |-> "none", result |-> NilResult, status |-> "", err |-> "nil"]

HandlerPanic ==
  [kind |-> "panic", result |-> NilResult, status |-> "", err |-> "nil"]

\* What an AnalysisHandler other than the GenericSBOMHandler may answer.
GenericReturns ==
  { [kind |-> "return", result |-> [kind |-> "licenses", sbomKey |-> 0],
     status |-> st, err |-> "nil"] : st \in {"success", "failure"} }
  \cup { [kind |-> "return", result |-> NilResult, status |-> "failure",
          err |-> "License analysis failed"],
         HandlerPanic }

\* Inputs of one GenericSBOMHandler run: what analysisDoc.Config holds for
\* the plugin, what os.Stat says of the path, the analyzer's answers and
\* whether the INSERT into table result succeeds.
SbomInputs ==
  [cfg : {"absent", "noproject", "nilproject", "notstring", "path"},
   stat : {"exists", "notexist", "othererr"},
   can : BOOLEAN,
   analyze : {"ok", "err"},
   status : {"success", "failure"},
   insertOk : BOOLEAN]

\* extractProjectPath (sbom_plugin_base.go 118-145).
ExtractProjectPath(in) ==
  CASE in.cfg = "absent" ->
         [kind |-> "err", err |-> "analysis configuration not found"]
    [] in.cfg \in {"noproject", "nilproject"} ->
         [kind |-> "err", err |-> "project path not provided"]
    [] in.cfg = "notstring" ->
         [kind |-> "panic", err |-> "interface conversion"]
    [] OTHER ->
         IF in.stat = "notexist"
         THEN [kind |-> "err", err |-> "project path does not exist"]
         ELSE [kind |-> "ok", err |-> "nil"]

\* db.NewInsert().Model(&result).Exec: the row is appended and its
\* generated Id comes back, or the table is left as it was and the Id
\* stays zero.
InsertResult(table, row, insertOk) ==
  IF insertOk
  THEN [table |-> Append(table, [row EXCEPT !.Id = Len(table) + 1]),
        id |-> Len(table) + 1]
  ELSE [table |-> table, id |-> 0]

\* handleFailure (sbom_plugin_base.go 148-192): one INSERT of a failure
\* row whose error is only logged, then (sbomKey, FAILURE, nil).
HandleFailure(table, msg, originalError, insertOk) ==
  LET ins == InsertResult(table,
               [Id |-> 0, Result |-> "failure", AnalysisId |-> msg.AnalysisId,
                Plugin |-> PluginName], insertOk)
  IN [ret |-> [kind |-> "return",
               result |-> [kind |-> "failure", sbomKey |-> ins.id],
               status |-> "failure", err |-> "nil"],
      attempts |-> 1, table |-> ins.table]

\* The path performSBOMAnalysis takes on the inputs.
SbomPath(in) ==
  LET p == ExtractProjectPath(in)
  IN CASE p.kind = "panic" -> "panic"
       [] p.kind = "err" -> "extraction"
       [] ~in.can -> "incompatible"
       [] in.analyze = "err" -> "analysis"
       [] ~in.insertOk -> "insertfailed"
       [] OTHER -> "success"

\* performSBOMAnalysis (sbom_plugin_base.go 59-115): the return value, the
\* number of INSERTs issued and the table afterwards.
PerformSBOMAnalysis(table, msg, in) ==
  LET p == ExtractProjectPath(in)
  IN CASE p.kind = "panic" ->
            [ret |-> HandlerPanic, attempts |-> 0, table |-> table]
       [] p.kind = "err" -> HandleFailure(table, msg, p.err, in.insertOk)
       [] ~in.can ->
            HandleFailure(table, msg, "project cannot be analyzed",
                          in.insertOk)
       [] in.analyze = "err" ->
            HandleFailure(table, msg, "analysis error", in.insertOk)
       [] OTHER ->
            LET ins == InsertResult(table,
                         [Id |-> 0, Result |-> "sbom",
                          AnalysisId |-> msg.AnalysisId,
                          Plugin |-> PluginName], in.insertOk)
            IN IF in.insertOk
               THEN [ret |-> [kind |-> "return",
                              result |-> [kind |-> "sbom", sbomKey |-> ins.id],
                              status |-> in.status, err |-> "nil"],
                     attempts |-> 1, table |-> ins.table]
               ELSE [ret |-> [kind |-> "return", result |-> NilResult,
                              status |-> "failure",
                              err |-> "failed to save result"],
                     attempts |-> 1, table |-> ins.table]

\* The arguments createCallbackWrapper gives updateAnalysisStep after the
\* handler returned ret (plugin_base.go 158-166).
UpdateArgs(ret) ==
  IF ret.err # "nil"
  THEN [name |-> PluginName, result |-> EmptyResult, status |-> "failure",
        start |-> T0, end |-> T1]
  ELSE [name |-> PluginName, result |-> ret.result, status |-> ret.status,
        start |-> T0, end |-> T1]

\* updateAnalysisInTransaction run by a single worker: the outcome and the
\* record afterwards.
UpdateAnalysis(doc, a, reloadOk, saveOk) ==
  IF ~reloadOk THEN [kind |-> "error", doc |-> doc]
  ELSE LET r == ScanAndSet(doc, a)
       IN CASE r.kind = "panic" -> [kind |-> "panic", doc |-> doc]
            [] r.kind = "notfound" -> [kind |-> "error", doc |-> doc]
            [] OTHER -> IF saveOk THEN [kind |-> "ok", doc |-> r.doc]
                        ELSE [kind |-> "error", doc |-> doc]

\* Mutant of AfterUpdate: the completion is notified whenever the update
\* committed.
AfterUpdate_NotifyOnCommit(ret, txKind) ==
  IF txKind = "ok" THEN "notify" ELSE "idle"

\* Where the callback goes after updateAnalysisStep: on to
\* notifyCompletion or out (plugin_base.go 158-177).
AfterUpdate(ret, txKind) ==
  IF ret.err = "nil" /\ txKind = "ok" THEN "notify" ELSE "idle"

\* notifyCompletion (plugin_base.go 241-261): the message handed to
\* amqp_helper.Send.
CompletionMessage(analysisId, pluginName) ==
  [queue |-> "plugins_dispatcher", AnalysisId |-> analysisId,
   Plugin |-> pluginName]

InitPlugin ==
  /\ pbPc = "idle"
  /\ pbDoc \in InitialRecords
  /\ pbMsg = [valid |-> FALSE, AnalysisId |-> ""]
  /\ pbPath = "none"
  /\ pbRet = NoHandlerRet
  /\ pbInserts = 0
  /\ pbResults = <<>>
  /\ pbLog = <<>>
  /\ pbSent = <<>>
  /\ pbCalls = 0
  /\ ParkedGen
  /\ ParkedEco
  /\ ParkedPrefetch
  /\ ParkedRace
  /\ ParkedConsumer
  /\ ParkedUpdate
  /\ ParkedLife
  /\ ParkedConnect
  /\ ParkedErrors
  /\ ParkedDelay

\* The callback is invoked with a delivery: json.Unmarshal, then the SELECT
\* of the record by primary key (selectOk).
PbReceive(msg, selectOk) ==
  /\ pbPc = "idle"
  /\ pbCalls < MaxDeliveries
  /\ pbCalls' = pbCalls + 1
  /\ pbMsg' = msg
  /\ pbPath' = "none"
  /\ pbRet' = NoHandlerRet
  /\ pbInserts' = 0
  /\ pbLog' = <<>>
  /\ pbPc' = IF msg.valid /\ selectOk THEN "handle" ELSE "idle"
  /\ UNCHANGED <<pbDoc, pbResults, pbSent>>
  /\ UNCHANGED notPluginVars

\* handler.StartAnalysis of a GenericSBOMHandler.
PbStartSBOM(in) ==
  /\ pbPc = "handle"
  /\ LET r == PerformSBOMAnalysis(pbResults, pbMsg, in)
     IN /\ pbRet' = r.ret
        /\ pbInserts' = r.attempts
        /\ pbResults' = r.table
        /\ pbPath' = SbomPath(in)
        /\ pbPc' = IF r.ret.kind = "panic" THEN "idle" ELSE "update"
        /\ pbLog' = IF r.ret.kind = "panic" THEN Append(pbLog, "panic")
                    ELSE pbLog
  /\ UNCHANGED <<pbDoc, pbMsg, pbSent, pbCalls>>
  /\ UNCHANGED notPluginVars

\* handler.StartAnalysis of another handler.
PbStartGeneric(ret) ==
  /\ pbPc = "handle"
  /\ pbRet' = ret
  /\ pbPath' = "generic"
  /\ pbPc' = IF ret.kind = "panic" THEN "idle" ELSE "update"
  /\ pbLog' = IF ret.kind = "panic" THEN Append(pbLog, "panic") ELSE pbLog
  /\ UNCHANGED <<pbDoc, pbMsg, pbInserts, pbResults, pbSent, pbCalls>>
  /\ UNCHANGED notPluginVars

\* updateAnalysisStep with the handler's answer, or with FAILURE after a
\* handler error.
PbUpdate(reloadOk, saveOk) ==
  /\ pbPc = "update"
  /\ LET tx == UpdateAnalysis(pbDoc, UpdateArgs(pbRet), reloadOk, saveOk)
     IN /\ pbDoc' = tx.doc
        /\ pbLog' = CASE tx.kind = "ok" -> Append(pbLog, "commit")
                      [] tx.kind = "panic" -> Append(pbLog, "panic")
                      [] OTHER -> pbLog
        /\ pbPc' = AfterUpdate(pbRet, tx.kind)
  /\ UNCHANGED <<pbMsg, pbPath, pbRet, pbInserts, pbResults, pbSent, pbCalls>>
  /\ UNCHANGED notPluginVars

\* notifyCompletion.
PbNotify ==
  /\ pbPc = "notify"
  /\ pbSent' = Append(pbSent, CompletionMessage(pbMsg.AnalysisId, PluginName))
  /\ pbLog' = Append(pbLog, "publish")
  /\ pbPc' = "idle"
  /\ UNCHANGED <<pbDoc, pbMsg, pbPath, pbRet, pbInserts, pbResults, pbCalls>>
  /\ UNCHANGED notPluginVars

CallbackStart == \E msg \in PluginMessages, selectOk \in BOOLEAN :
                   PbReceive(msg, selectOk)

StartAnalysis ==
  \/ \E in \in SbomInputs : PbStartSBOM(in)
  \/ \E ret \in GenericReturns : PbStartGeneric(ret)

UpdateStep == \E reloadOk \in BOOLEAN, saveOk \in BOOLEAN :
                PbUpdate(reloadOk, saveOk)

NextPlugin ==
  \/ CallbackStart
  \/ StartAnalysis
  \/ UpdateStep
  \/ PbNotify

SpecPlugin == InitPlugin /\ [][NextPlugin]_vars

(***************************************************************************)
(* Claims on the plugin callback.                                          *)
(***************************************************************************)
Count(log, e) == Cardinality({i \in 1..Len(log) : log[i] = e})

\* The position of the first e in log, 0 when there is none.
FirstOf(log, e) ==
  IF \E i \in 1..Len(log) : log[i] = e
  THEN CHOOSE i \in 1..Len(log) :
         log[i] = e /\ \A j \in 1..(i - 1) : log[j] # e
  ELSE 0

\* The callback invocation has ended.
PbEnded == pbPc = "idle" /\ pbCalls > 0

\* C21: in every callback invocation at most one completion message is
\* handed to the broker helper, it goes to queue plugins_dispatcher with
\* the job id and the plugin name, it comes after the commit of the step
\* update, and once the invocation has ended it was published exactly when
\* the handler returned without error and the update committed.
C21_PublishIffHandledAndCommitted ==
  /\ Count(pbLog, "publish") <= 1
  /\ Count(pbLog, "publish") = 1 =>
       /\ pbRet.kind = "return" /\ pbRet.err = "nil"
       /\ FirstOf(pbLog, "commit") # 0
       /\ FirstOf(pbLog, "commit") < FirstOf(pbLog, "publish")
       /\ pbSent # <<>>
       /\ pbSent[Len(pbSent)] =
            [queue |-> "plugins_dispatcher", AnalysisId |-> pbMsg.AnalysisId,
             Plugin |-> PluginName]
  /\ PbEnded =>
       (Count(pbLog, "publish") = 1
          <=> (/\ pbRet.kind = "return" /\ pbRet.err = "nil"
               /\ Count(pbLog, "commit") = 1))
  /\ Len(pbSent) <= pbCalls

\* An invocation ended with its completion published, and another ended
\* after a handler error whose failure update committed.
C21_Witness ==
  /\ PbEnded
  /\ pbCalls = 2
  /\ Len(pbSent) = 1
  /\ pbRet.err # "nil"
  /\ pbLog = <<"commit">>

\* The paths of performSBOMAnalysis on which it returns through
\* handleFailure.
BusinessFailurePaths == {"extraction", "incompatible", "analysis"}

\* The runs of StartAnalysis that met a business error: those three paths
\* and the run whose project value is not a string, which is a path that
\* cannot be extracted.
BusinessErrorPaths == BusinessFailurePaths \cup {"panic"}

\* C24: when StartAnalysis of the GenericSBOMHandler met a business error
\* (the path cannot be extracted, the analyzer cannot handle the project,
\* the analysis returned an error) no fault escapes: it returned status
\* failure with a nil error after one insert of a failure row, the callback
\* records the step as failure, and an invocation ends with the completion
\* published unless the step update returned an error.
C24_BusinessErrorIsRecordedFailure ==
  pbPath \in BusinessErrorPaths =>
    /\ pbRet.kind = "return"
    /\ pbRet.err = "nil"
    /\ pbRet.status = "failure"
    /\ pbInserts = 1
    /\ pbPc # "handle"
    /\ Count(pbLog, "panic") = 0
    /\ Count(pbLog, "commit") = 1 =>
         /\ CurrentStage(pbDoc)[FindStep(CurrentStage(pbDoc), PluginName)].Status
              = "failure"
         /\ pbPc \in {"notify", "idle"}
    /\ PbEnded => pbLog \in {<<"commit", "publish">>, <<>>}

\* C25: every StartAnalysis of the GenericSBOMHandler, on the success path
\* and on every failure path, has issued exactly one insert into table
\* result, and no step of the runtime changes or removes a row already
\* there.
C25_OneInsertAppendOnly ==
  [][/\ (pbPath' \in BusinessErrorPaths \cup {"success", "insertfailed"})
          => pbInserts' = 1
     /\ Len(pbResults') >= Len(pbResults)
     /\ Len(pbResults') <= Len(pbResults) + 1
     /\ SubSeq(pbResults', 1, Len(pbResults)) = pbResults]_vars

(***************************************************************************)
(* The tasks of a ServiceBase and the fields they share (osv.go 130-139):  *)
(* the lifecycle task (StartListening, WaitForever, Close, restart), the   *)
(* metrics task (updateMetricsPeriodically) and the consumer tasks, one    *)
(* per successful startQueueListener, whose handlers call SendMessage.     *)
(* The struct has no lock, so every read and write of a field is a plain   *)
(* memory access.                                                          *)
(*                                                                         *)
(* A task's position names the access it is in the middle of: entering     *)
(* the position begins the access and leaving it ends it, so two tasks     *)
(* at positions that touch the same field are accessing it at the same     *)
(* time.  A consumer whose channel was closed while its handler was in     *)
(* SendMessage finishes that call and ends; startQueueListener does not    *)
(* wait for it, so a restart may start the next consumer task of the       *)
(* queue beside it.  A task is named by a pair: the lifecycle and metrics  *)
(* tasks by their role, a consumer task by its queue and its slot.         *)
(***************************************************************************)
Main == <<"main", 0>>

Metrics == <<"metrics", 0>>

Consumers == {"q1", "q2"} \X (1..MaxConsumersPerQueue)

RaceTasks == {Main, Metrics} \cup Consumers

\* The queue each consumer task serves.
QueueOf == [c \in Consumers |-> c[1]]

\* Queue names handlers send to: a consumed queue and one nobody consumes.
SendQueues == {"q1", "out"}

Rd(f) == [field |-> f, write |-> FALSE]

Wr(f) == [field |-> f, write |-> TRUE]

\* The field accesses of the lifecycle task at each position:
\* startQueueListener (366-383), Close (718-755), restart (541-574).
MainAccess(pc) ==
  CASE pc \in {"start1", "start2", "listen1", "listen2"} ->
         {Rd("queues"), Rd("conn"), Wr("channels")}
    [] pc = "close" -> {Rd("channels"), Rd("conn"), Rd("DB")}
    [] pc = "config" -> {Wr("ConfigSvc")}
    [] pc = "db" -> {Wr("DB")}
    [] pc = "conn" -> {Wr("conn")}
    [] pc = "clear" -> {Wr("channels")}
    [] OTHER -> {}

\* updateConnectionMetrics (224-264).
MetricsAccess(pc) ==
  CASE pc = "conn" -> {Rd("conn")}
    [] pc = "queues" -> {Rd("queues")}
    [] pc = "db" -> {Rd("DB")}
    [] OTHER -> {}

\* SendMessage (454-464): the map lookup, sb.conn.Channel(), the map store.
SendAccess(pc) ==
  CASE pc = "lookup" -> {Rd("channels")}
    [] pc = "open" -> {Rd("conn")}
    [] pc = "store" -> {Wr("channels")}
    [] OTHER -> {}

Accesses(t) ==
  CASE t = Main -> MainAccess(rcPc[t])
    [] t = Metrics -> MetricsAccess(rcPc[t])
    [] OTHER -> SendAccess(rcPc[t])

\* Tasks t and u are in accesses of one field, one of them a write.
Conflict(t, u) ==
  \E a \in Accesses(t), b \in Accesses(u) :
    a.field = b.field /\ (a.write \/ b.write)

\* Task t is in an access of the channels map that conflicts with another
\* task's.
MapRace(t) ==
  \E u \in RaceTasks \ {t} :
    \E a \in Accesses(t), b \in Accesses(u) :
      a.field = "channels" /\ b.field = "channels" /\ (a.write \/ b.write)

\* What ending a map access may do to the process: the Go runtime stops it
\* when it detects the concurrent access, or does not notice.
FatalOutcomes(t) == IF MapRace(t) THEN BOOLEAN ELSE {FALSE}

InitRace ==
  /\ rcPc = [t \in RaceTasks |-> IF t = Main THEN "start1" ELSE "off"]
  /\ rcChannels = {}
  /\ rcDest = [c \in Consumers |-> ""]
  /\ rcStale = {}
  /\ rcFatal = FALSE
  /\ ParkedGen
  /\ ParkedEco
  /\ ParkedPrefetch
  /\ ParkedConsumer
  /\ ParkedUpdate
  /\ ParkedLife
  /\ ParkedConnect
  /\ ParkedErrors
  /\ ParkedDelay
  /\ ParkedPlugin

\* The position after pc on the lifecycle task's way when the step succeeds.
MainNext(pc) ==
  CASE pc = "start1" -> "start2"
    [] pc = "start2" -> "wait"
    [] pc = "wait" -> "close"
    [] pc = "close" -> "sleep"
    [] pc = "sleep" -> "config"
    [] pc = "config" -> "db"
    [] pc = "db" -> "conn"
    [] pc = "conn" -> "clear"
    [] pc = "clear" -> "listen1"
    [] pc = "listen1" -> "listen2"
    [] OTHER -> "wait"

\* The queue a startQueueListener position is called for ("": none).
ListenerQueue(pc) ==
  CASE pc \in {"start1", "listen1"} -> "q1"
    [] pc \in {"start2", "listen2"} -> "q2"
    [] OTHER -> ""

\* The consumer tasks of queue q that have not been started or have ended.
FreeSlots(q) == {c \in Consumers : QueueOf[c] = q /\ rcPc[c] = "off"}

\* The consumer task a startQueueListener position starts: the first free
\* one of its queue.
Started(pc) ==
  IF FreeSlots(ListenerQueue(pc)) = {} THEN {}
  ELSE {CHOOSE c \in FreeSlots(ListenerQueue(pc)) :
          \A e \in FreeSlots(ListenerQueue(pc)) : c[2] <= e[2]}

\* How a step of the lifecycle task may end: without error, with an error
\* before the step's write ("early": CreateConfigService,
\* connectServiceDatabases, connectAMQP, and in startQueueListener
\* conn.Channel 367-370 or ch.Qos 373-381), or with an error after
\* sb.channels[config.Name] = ch at 383 ("late": ch.QueueDeclare 385-396 or
\* ch.Consume 398-409).
StepEndings == {"none", "early", "late"}

\* The positions whose step can return an error.
FailingPositions(fail) ==
  CASE fail = "early" ->
         {"start1", "start2", "config", "db", "conn", "listen1", "listen2"}
    [] fail = "late" -> {"start1", "start2", "listen1", "listen2"}
    [] OTHER -> {}

\* The lifecycle task ends the access of its position and begins the next.
\* fail: how the step ended.  An error of the first StartListening goes to
\* its caller, with the queues after the failing one not attempted; an
\* error at "config", "db", "conn" or in a restart's listener sends
\* WaitForever back to its select.  A late error leaves the queue's key in
\* the map although no consumer was started.  A listener that succeeds
\* starts a consumer task whether or not an earlier one of the queue still
\* runs, up to MaxConsumersPerQueue tasks of a queue at a time.
MainAdvance(fail, fatal) ==
  /\ ~rcFatal
  /\ LET pc == rcPc[Main]
         failed == fail # "none"
         q == ListenerQueue(pc)
         begun == IF failed THEN {} ELSE Started(pc)
         stored == IF fail = "early" \/ q = "" THEN {} ELSE {q}
     IN /\ pc # "returned"
        /\ fatal \in FatalOutcomes(Main)
        /\ failed => pc \in FailingPositions(fail)
        /\ (q # "" /\ ~failed) => begun # {}
        /\ rcFatal' = fatal
        /\ rcChannels' =
             CASE pc = "clear" -> {}
               [] OTHER -> rcChannels \cup stored
        /\ rcStale' = IF pc = "close"
                      THEN {c \in Consumers : rcPc[c] \notin {"off", "idle"}}
                      ELSE rcStale
        /\ rcPc' = [t \in RaceTasks |->
             CASE t = Main ->
                    IF ~failed THEN MainNext(pc)
                    ELSE IF pc \in {"start1", "start2"} THEN "returned"
                    ELSE "wait"
               [] t = Metrics ->
                    IF pc = "start2" /\ ~failed THEN "sleep" ELSE rcPc[t]
               [] t \in begun -> "idle"
               [] pc = "close" /\ rcPc[t] = "idle" -> "off"
               [] OTHER -> rcPc[t]]
  /\ UNCHANGED rcDest
  /\ UNCHANGED notRaceVars

\* The metrics task: the ticker, then the reads of conn, queues and DB.
MetricsAdvance ==
  /\ ~rcFatal
  /\ rcPc[Metrics] # "off"
  /\ rcPc' = [rcPc EXCEPT ![Metrics] =
       CASE @ = "sleep" -> "conn"
         [] @ = "conn" -> "queues"
         [] @ = "queues" -> "db"
         [] OTHER -> "sleep"]
  /\ UNCHANGED <<rcChannels, rcDest, rcStale, rcFatal>>
  /\ UNCHANGED notRaceVars

\* The position a consumer returns to when its SendMessage ends (its
\* argument is then gone).
SendDone(c) == IF c \in rcStale THEN "off" ELSE "idle"

\* The consumer tasks whose handler is inside SendMessage.
Senders == {c \in Consumers : rcPc[c] \notin {"off", "idle"}}

\* The handler of consumer c calls SendMessage(dest, ...): the map lookup
\* begins.  At most MaxSenders handlers are inside the call at a time.
SendBegin(c, dest) ==
  /\ ~rcFatal
  /\ rcPc[c] = "idle"
  /\ Cardinality(Senders) < MaxSenders
  /\ rcPc' = [rcPc EXCEPT ![c] = "lookup"]
  /\ rcDest' = [rcDest EXCEPT ![c] = dest]
  /\ UNCHANGED <<rcChannels, rcStale, rcFatal>>
  /\ UNCHANGED notRaceVars

\* The lookup ends.  Read while another task writes the map, its answer is
\* not determined by the map's keys.
SendLookup(c, exists, fatal) ==
  /\ ~rcFatal
  /\ rcPc[c] = "lookup"
  /\ fatal \in FatalOutcomes(c)
  /\ MapRace(c) \/ (exists <=> rcDest[c] \in rcChannels)
  /\ rcFatal' = fatal
  /\ rcPc' = [rcPc EXCEPT ![c] = IF exists THEN "publish" ELSE "open"]
  /\ UNCHANGED <<rcChannels, rcDest, rcStale>>
  /\ UNCHANGED notRaceVars

\* sb.conn.Channel() answered (ok) or failed; on success the map store
\* begins.
SendOpen(c, ok) ==
  /\ ~rcFatal
  /\ rcPc[c] = "open"
  /\ rcPc' = [rcPc EXCEPT ![c] = IF ok THEN "store" ELSE SendDone(c)]
  /\ rcStale' = IF ok THEN rcStale ELSE rcStale \ {c}
  /\ rcDest' = IF ok THEN rcDest ELSE [rcDest EXCEPT ![c] = ""]
  /\ UNCHANGED <<rcChannels, rcFatal>>
  /\ UNCHANGED notRaceVars

\* sb.channels[queueName] = ch ends.
SendStore(c, fatal) ==
  /\ ~rcFatal
  /\ rcPc[c] = "store"
  /\ fatal \in FatalOutcomes(c)
  /\ rcFatal' = fatal
  /\ rcChannels' = rcChannels \cup {rcDest[c]}
  /\ rcPc' = [rcPc EXCEPT ![c] = "publish"]
  /\ UNCHANGED <<rcDest, rcStale>>
  /\ UNCHANGED notRaceVars

\* QueueDeclare and Publish on the channel, then the return.
SendPublish(c) ==
  /\ ~rcFatal
  /\ rcPc[c] = "publish"
  /\ rcPc' = [rcPc EXCEPT ![c] = SendDone(c)]
  /\ rcStale' = rcStale \ {c}
  /\ rcDest' = [rcDest EXCEPT ![c] = ""]
  /\ UNCHANGED <<rcChannels, rcFatal>>
  /\ UNCHANGED notRaceVars

LifecycleStep == \E fail \in StepEndings, fatal \in BOOLEAN : MainAdvance(fail, fatal)

SendMessage ==
  \/ \E c \in Consumers, dest \in SendQueues : SendBegin(c, dest)
  \/ \E c \in Consumers, exists \in BOOLEAN, fatal \in BOOLEAN :
       SendLookup(c, exists, fatal)
  \/ \E c \in Consumers, ok \in BOOLEAN : SendOpen(c, ok)
  \/ \E c \in Consumers, fatal \in BOOLEAN : SendStore(c, fatal)
  \/ \E c \in Consumers : SendPublish(c)

NextRace ==
  \/ LifecycleStep
  \/ MetricsAdvance
  \/ SendMessage

SpecRace == InitRace /\ [][NextRace]_vars

\* C22: no two tasks are at the same time in accesses of one ServiceBase
\* field of which at least one is a write.
C22_NoConflictingConcurrentAccess ==
  \A t \in RaceTasks : \A u \in RaceTasks \ {t} : ~Conflict(t, u)

(***************************************************************************)
(* The prefetch window of one consumer (osv.go 366-409, 411-449).          *)
(*                                                                         *)
(* startQueueListener makes its broker calls in order; the broker pushes   *)
(* deliveries to a registered consumer while the number of its deliveries  *)
(* not yet settled is below the channel's prefetch count (0: no limit).    *)
(* Messages are counted, not told apart.                                   *)
(***************************************************************************)
\* Mutant of SetupOrder: the prefetch limit set after the consumer is
\* registered.
SetupOrder_QosAfterConsume == <<"Channel", "QueueDeclare", "Consume", "Qos">>

\* The broker calls of startQueueListener, in their order.
SetupOrder == <<"Channel", "Qos", "QueueDeclare", "Consume">>

\* Deliveries of the consumer delivered by the broker and not yet settled.
Outstanding == pfBuffered + pfHeld + pfLost

InitPrefetch ==
  /\ pfStep = 0
  /\ pfPrefetch = 0
  /\ pfRegistered = FALSE
  /\ pfReady = 0
  /\ pfPublished = 0
  /\ pfBuffered = 0
  /\ pfHeld = 0
  /\ pfLost = 0
  /\ pfAlive = FALSE
  /\ ParkedGen
  /\ ParkedEco
  /\ ParkedConsumer
  /\ ParkedUpdate
  /\ ParkedLife
  /\ ParkedConnect
  /\ ParkedErrors
  /\ ParkedDelay
  /\ ParkedPlugin
  /\ ParkedRace

\* A producer puts a message on the queue.
PfPublish ==
  /\ pfPublished < MaxBacklog
  /\ pfPublished' = pfPublished + 1
  /\ pfReady' = pfReady + 1
  /\ UNCHANGED <<pfStep, pfPrefetch, pfRegistered, pfBuffered, pfHeld, pfLost,
                 pfAlive>>
  /\ UNCHANGED notPrefetchVars

\* The next broker call of startQueueListener succeeds: ch.Qos(10, 0,
\* false) sets the prefetch count, ch.Consume registers the consumer, and
\* after the last call the consumer goroutine is started.
PfSetup ==
  /\ pfStep < Len(SetupOrder)
  /\ pfStep' = pfStep + 1
  /\ pfPrefetch' = IF SetupOrder[pfStep + 1] = "Qos" THEN PrefetchCount
                   ELSE pfPrefetch
  /\ pfRegistered' = (pfRegistered \/ SetupOrder[pfStep + 1] = "Consume")
  /\ pfAlive' = (pfStep + 1 = Len(SetupOrder))
  /\ UNCHANGED <<pfReady, pfPublished, pfBuffered, pfHeld, pfLost>>
  /\ UNCHANGED notPrefetchVars

\* The broker pushes a message to the consumer.
PfDeliver ==
  /\ pfRegistered
  /\ pfReady > 0
  /\ pfPrefetch = 0 \/ Outstanding < pfPrefetch
  /\ pfReady' = pfReady - 1
  /\ pfBuffered' = pfBuffered + 1
  /\ UNCHANGED <<pfStep, pfPrefetch, pfRegistered, pfPublished, pfHeld, pfLost,
                 pfAlive>>
  /\ UNCHANGED notPrefetchVars

\* for d := range msgs takes the next delivery.
PfReceive ==
  /\ pfAlive
  /\ pfHeld = 0
  /\ pfBuffered > 0
  /\ pfBuffered' = pfBuffered - 1
  /\ pfHeld' = 1
  /\ UNCHANGED <<pfStep, pfPrefetch, pfRegistered, pfReady, pfPublished, pfLost,
                 pfAlive>>
  /\ UNCHANGED notPrefetchVars

\* The loop body ends as ProcessDelivery says.  d.Ack settles the delivery,
\* d.Nack(false, true) alone puts it back on the queue, and neither call
\* leaves it outstanding.  d.Nack after d.Ack on the same delivery makes the
\* broker close the channel: the consumer is gone, and every delivery not
\* settled goes back on the queue.  A panic that escapes the inner func
\* ends the goroutine.
PfSettle(h, bkAfter, bkRecover) ==
  /\ pfHeld = 1
  /\ LET r == ProcessDelivery(h, bkAfter, bkRecover)
         closes == r.calls = <<"ack", "nack_requeue">>
     IN /\ pfHeld' = 0
        /\ pfReady' = CASE closes -> pfReady + pfBuffered + pfLost
                        [] r.calls = <<"nack_requeue">> -> pfReady + 1
                        [] OTHER -> pfReady
        /\ pfBuffered' = IF closes THEN 0 ELSE pfBuffered
        /\ pfLost' = CASE closes -> 0
                       [] r.calls = <<>> -> pfLost + 1
                       [] OTHER -> pfLost
        /\ pfRegistered' = (pfRegistered /\ ~closes)
        /\ pfAlive' = ~r.escaped
  /\ UNCHANGED <<pfStep, pfPrefetch, pfPublished>>
  /\ UNCHANGED notPrefetchVars

\* The channel is closed and the delivery stream drained: the range loop
\* ends.
PfStreamEnd ==
  /\ pfAlive
  /\ pfStep = Len(SetupOrder)
  /\ ~pfRegistered
  /\ pfHeld = 0
  /\ pfBuffered = 0
  /\ pfAlive' = FALSE
  /\ UNCHANGED <<pfStep, pfPrefetch, pfRegistered, pfReady, pfPublished,
                 pfBuffered, pfHeld, pfLost>>
  /\ UNCHANGED notPrefetchVars

PfLoopBody == \E h \in {"return", "panic"}, bkAfter \in BookkeepingOutcomes,
                 bkRecover \in {"ok", "panic"} : PfSettle(h, bkAfter, bkRecover)

NextPrefetch ==
  \/ PfPublish
  \/ PfSetup
  \/ PfDeliver
  \/ PfReceive
  \/ PfLoopBody
  \/ PfStreamEnd

SpecPrefetch == InitPrefetch /\ [][NextPrefetch]_vars

\* C23: the deliveries of the consumer that the broker has delivered and
\* that are neither acked nor nacked never number more than the prefetch
\* limit of 10, which is in force whenever the consumer is registered.
C23_OutstandingWithinPrefetch ==
  /\ Outstanding <= PrefetchCount
  /\ pfRegistered => pfPrefetch = PrefetchCount

\* The window is full while more messages wait in the queue.
C23_Witness ==
  /\ Outstanding = PrefetchCount
  /\ pfReady > 0
  /\ pfHeld = 1

(***************************************************************************)
(* Package ecosystem: BasicEcosystemHandler, HandlerRegistry and           *)
(* CreateDefaultHandlers (basic_handlers.go), GetDefaultEcosystemMap and   *)
(* EcosystemMapper (ecosystem types, lines 26-181).  A Go map is a         *)
(* function on its key set; ranging over it visits the keys in any order.  *)
(* EcosystemInfo is kept to its Name, Ecosystem and Language fields.       *)
(***************************************************************************)
ZeroInfo == [Name |-> "", Ecosystem |-> "", Language |-> ""]

\* GetDefaultEcosystemMap.
DefaultEcosystemMap ==
  [p \in {"js-sbom", "php-sbom", "python-sbom"} |->
     CASE p = "js-sbom" ->
            [Name |-> "JavaScript", Ecosystem |-> "npm",
             Language |-> "JavaScript"]
       [] p = "php-sbom" ->
            [Name |-> "PHP", Ecosystem |-> "packagist", Language |-> "PHP"]
       [] OTHER ->
            [Name |-> "Python", Ecosystem |-> "pypi", Language |-> "Python"]]

\* Maps a mapper is built over: the default one, an empty one, one with two
\* plugins of the same ecosystem, and one whose key is an ecosystem name.
EcosystemMaps ==
  { DefaultEcosystemMap,
    EmptyMap,
    [p \in {"js-sbom", "ts-sbom"} |->
       [Name |-> p, Ecosystem |-> "npm", Language |-> "JavaScript"]],
    [p \in {"npm"} |->
       [Name |-> "Odd", Ecosystem |-> "invalid", Language |-> "None"]] }

PluginKeys == {"js-sbom", "php-sbom", "ts-sbom", "npm", "invalid"}

EcosystemNames == {"npm", "packagist", "pypi", "invalid", "js-sbom", ""}

LanguageIDs == {"JS", "PHP", "js"}

\* NewBasicEcosystemHandler.
NewBasicEcosystemHandler(languageID, ecosystemInfo) ==
  [nil |-> FALSE, languageID |-> languageID, ecosystemInfo |-> ecosystemInfo]

\* The nil EcosystemHandler a failed map lookup yields.
NilHandler == [nil |-> TRUE, languageID |-> "", ecosystemInfo |-> ZeroInfo]

\* Handlers given to RegisterHandler.
Handlers ==
  { NewBasicEcosystemHandler("JS", [ZeroInfo EXCEPT !.Name = "JavaScript Test",
                                                    !.Language = "JavaScript"]),
    NewBasicEcosystemHandler("PHP", [ZeroInfo EXCEPT !.Name = "PHP Test",
                                                     !.Language = "PHP"]),
    NewBasicEcosystemHandler("JS", DefaultEcosystemMap["js-sbom"]) }

\* Mutant of SupportsLanguageID: the comparison made on the language name
\* of the handler's ecosystem.
SupportsLanguageID_ByLanguage(h, languageID) ==
  h.ecosystemInfo.Language = languageID

\* BasicEcosystemHandler.SupportsLanguageID.
SupportsLanguageID(h, languageID) == h.languageID = languageID

\* Mutant of RegisterHandler: a language already registered keeps its
\* handler.
RegisterHandler_KeepFirst(reg, languageID, handler) ==
  IF languageID \in DOMAIN reg THEN reg ELSE MapPut(reg, languageID, handler)

\* HandlerRegistry.RegisterHandler: r.handlers[languageID] = handler.
RegisterHandler(reg, languageID, handler) == MapPut(reg, languageID, handler)

\* HandlerRegistry.GetHandler.
GetHandler(reg, languageID) ==
  IF languageID \in DOMAIN reg
  THEN [handler |-> reg[languageID], exists |-> TRUE]
  ELSE [handler |-> NilHandler, exists |-> FALSE]

\* HandlerRegistry.GetAllHandlers.
GetAllHandlers(reg) == reg

\* The slices GetSupportedLanguages may return: the keys, in any order.
GetSupportedLanguages(reg) ==
  { sq \in [1..Cardinality(DOMAIN reg) -> DOMAIN reg] :
      \A i, j \in DOMAIN sq : i # j => sq[i] # sq[j] }

\* The RegisterHandler calls CreateDefaultHandlers makes, in order.
DefaultRegistrations ==
  (IF "js-sbom" \in DOMAIN DefaultEcosystemMap
   THEN << <<"JS", NewBasicEcosystemHandler("JS", DefaultEcosystemMap["js-sbom"])>> >>
   ELSE <<>>)
  \o (IF "php-sbom" \in DOMAIN DefaultEcosystemMap
      THEN << <<"PHP", NewBasicEcosystemHandler("PHP", DefaultEcosystemMap["php-sbom"])>> >>
      ELSE <<>>)

\* The registry after the calls of regs were made on reg, in order.
RECURSIVE RegisterAll(_, _)
RegisterAll(reg, regs) ==
  IF regs = <<>> THEN reg
  ELSE RegisterAll(RegisterHandler(reg, regs[1][1], regs[1][2]), Tail(regs))

\* CreateDefaultHandlers.
CreateDefaultHandlers == RegisterAll(EmptyMap, DefaultRegistrations)

\* EcosystemMapper.GetEcosystemInfo.
GetEcosystemInfo(em, pluginName) ==
  IF pluginName \in DOMAIN em
  THEN [info |-> em[pluginName], exists |-> TRUE]
  ELSE [info |-> ZeroInfo, exists |-> FALSE]

\* Mutant of IsValidEcosystem: the name looked up among the plugin names.
IsValidEcosystem_ByPluginName(em, ecosystem) == ecosystem \in DOMAIN em

\* EcosystemMapper.IsValidEcosystem.
IsValidEcosystem(em, ecosystem) ==
  \E p \in DOMAIN em : em[p].Ecosystem = ecosystem

NoCall ==
  [op |-> "none", arg |-> "", handler |-> NilHandler, info |-> ZeroInfo,
   ok |-> FALSE, keys |-> {}, langs |-> <<>>]

InitEco ==
  /\ egRegistry = EmptyMap
  /\ egHistory = <<>>
  /\ egMap \in EcosystemMaps
  /\ egLast = NoCall
  /\ ParkedGen
  /\ ParkedConsumer
  /\ ParkedUpdate
  /\ ParkedLife
  /\ ParkedConnect
  /\ ParkedErrors
  /\ ParkedDelay
  /\ ParkedPlugin
  /\ ParkedRace
  /\ ParkedPrefetch

CallRegisterHandler(id, h) ==
  /\ Len(egHistory) < MaxRegistrations
  /\ egRegistry' = RegisterHandler(egRegistry, id, h)
  /\ egHistory' = Append(egHistory, <<id, h>>)
  /\ egLast' = [NoCall EXCEPT !.op = "RegisterHandler", !.arg = id,
                              !.handler = h]
  /\ UNCHANGED egMap
  /\ UNCHANGED notEcoVars

CallGetHandler(id) ==
  /\ LET r == GetHandler(egRegistry, id)
     IN egLast' = [NoCall EXCEPT !.op = "GetHandler", !.arg = id,
                                 !.handler = r.handler, !.ok = r.exists]
  /\ UNCHANGED <<egRegistry, egHistory, egMap>>
  /\ UNCHANGED notEcoVars

CallGetAllHandlers ==
  /\ egLast' = [NoCall EXCEPT !.op = "GetAllHandlers",
                              !.keys = DOMAIN GetAllHandlers(egRegistry)]
  /\ UNCHANGED <<egRegistry, egHistory, egMap>>
  /\ UNCHANGED notEcoVars

CallGetSupportedLanguages ==
  /\ \E sq \in GetSupportedLanguages(egRegistry) :
       egLast' = [NoCall EXCEPT !.op = "GetSupportedLanguages", !.langs = sq]
  /\ UNCHANGED <<egRegistry, egHistory, egMap>>
  /\ UNCHANGED notEcoVars

\* registry := CreateDefaultHandlers(): a new registry takes the place of
\* the one at hand.
CallCreateDefaultHandlers ==
  /\ egLast.op # "CreateDefaultHandlers"
  /\ egRegistry' = CreateDefaultHandlers
  /\ egHistory' = DefaultRegistrations
  /\ egLast' = [NoCall EXCEPT !.op = "CreateDefaultHandlers",
                              !.keys = DOMAIN CreateDefaultHandlers]
  /\ UNCHANGED egMap
  /\ UNCHANGED notEcoVars

CallSupportsLanguageID(h, x) ==
  /\ egLast' = [NoCall EXCEPT !.op = "SupportsLanguageID", !.arg = x,
                              !.handler = h,
                              !.ok = SupportsLanguageID(h, x)]
  /\ UNCHANGED <<egRegistry, egHistory, egMap>>
  /\ UNCHANGED notEcoVars

CallGetEcosystemInfo(p) ==
  /\ LET r == GetEcosystemInfo(egMap, p)
     IN egLast' = [NoCall EXCEPT !.op = "GetEcosystemInfo", !.arg = p,
                                 !.info = r.info, !.ok = r.exists]
  /\ UNCHANGED <<egRegistry, egHistory, egMap>>
  /\ UNCHANGED notEcoVars

CallIsValidEcosystem(e) ==
  /\ egLast' = [NoCall EXCEPT !.op = "IsValidEcosystem", !.arg = e,
                              !.ok = IsValidEcosystem(egMap, e)]
  /\ UNCHANGED <<egRegistry, egHistory, egMap>>
  /\ UNCHANGED notEcoVars

RegistryCall ==
  \/ \E id \in LanguageIDs, h \in Handlers : CallRegisterHandler(id, h)
  \/ \E id \in LanguageIDs : CallGetHandler(id)
  \/ CallGetAllHandlers
  \/ CallGetSupportedLanguages
  \/ CallCreateDefaultHandlers

HandlerCall ==
  \E h \in Handlers \cup {egRegistry[id] : id \in DOMAIN egRegistry},
     x \in LanguageIDs \cup {"JavaScript"} : CallSupportsLanguageID(h, x)

MapperCall ==
  \/ \E p \in PluginKeys : CallGetEcosystemInfo(p)
  \/ \E e \in EcosystemNames : CallIsValidEcosystem(e)

NextEco ==
  \/ RegistryCall
  \/ HandlerCall
  \/ MapperCall

SpecEco == InitEco /\ [][NextEco]_vars

(***************************************************************************)
(* Claims on package ecosystem.                                            *)
(***************************************************************************)
\* The language ids RegisterHandler was called with.
RegisteredIDs == {egHistory[i][1] : i \in DOMAIN egHistory}

\* The handler of the last RegisterHandler call made with id.
LatestRegistered(id) ==
  LET k == CHOOSE i \in DOMAIN egHistory :
             /\ egHistory[i][1] = id
             /\ \A j \in DOMAIN egHistory : egHistory[j][1] = id => j <= i
  IN egHistory[k][2]

\* C27: GetHandler(id) answers the handler most recently registered under
\* id with true, and nil with false for an id never registered;
\* GetAllHandlers and GetSupportedLanguages hold exactly the distinct ids
\* registered, once each.
C27_RegistryHoldsLatestPerID ==
  /\ egLast.op = "GetHandler" =>
       IF egLast.arg \in RegisteredIDs
       THEN egLast.ok /\ egLast.handler = LatestRegistered(egLast.arg)
       ELSE ~egLast.ok /\ egLast.handler = NilHandler
  /\ egLast.op = "GetAllHandlers" => egLast.keys = RegisteredIDs
  /\ egLast.op = "GetSupportedLanguages" =>
       /\ {egLast.langs[i] : i \in DOMAIN egLast.langs} = RegisteredIDs
       /\ Len(egLast.langs) = Cardinality(RegisteredIDs)

\* GetHandler has answered the second of two handlers registered under one
\* id.
C27_Witness ==
  /\ egLast.op = "GetHandler"
  /\ Len(egHistory) = 2
  /\ egHistory[1][1] = egHistory[2][1]
  /\ egHistory[1][2] # egHistory[2][2]
  /\ egLast.arg = egHistory[2][1]
  /\ egLast.ok

\* C28: GetEcosystemInfo(p) answers the entry of p with true exactly when p
\* is a key of the mapper's map, IsValidEcosystem(e) is true exactly when
\* an entry's ecosystem name is e, and over the default map js-sbom is npm /
\* JavaScript, php-sbom is packagist / PHP and "invalid" is no ecosystem.
C28_MapperLookups ==
  /\ egLast.op = "GetEcosystemInfo" =>
       /\ egLast.ok <=> egLast.arg \in DOMAIN egMap
       /\ egLast.ok => egLast.info = egMap[egLast.arg]
       /\ (egMap = DefaultEcosystemMap /\ egLast.arg = "js-sbom") =>
            /\ egLast.ok
            /\ egLast.info.Ecosystem = "npm"
            /\ egLast.info.Language = "JavaScript"
       /\ (egMap = DefaultEcosystemMap /\ egLast.arg = "php-sbom") =>
            /\ egLast.ok
            /\ egLast.info.Ecosystem = "packagist"
            /\ egLast.info.Language = "PHP"
  /\ egLast.op = "IsValidEcosystem" =>
       /\ egLast.ok <=> egLast.arg \in {egMap[p].Ecosystem : p \in DOMAIN egMap}
       /\ (egMap = DefaultEcosystemMap /\ egLast.arg = "invalid") => ~egLast.ok

\* IsValidEcosystem("npm") is true over the default map, where npm is an
\* ecosystem and no plugin name.
C28_Witness ==
  /\ egMap = DefaultEcosystemMap
  /\ egLast.op = "IsValidEcosystem"
  /\ egLast.arg = "npm"
  /\ egLast.ok

\* C29: the registry of CreateDefaultHandlers holds under JS a handler of
\* language JavaScript and under PHP a handler of language PHP, and
\* SupportsLanguageID(x) of a handler is true exactly when x is its
\* language id.
C29_DefaultHandlersAndSupport ==
  /\ egLast.op = "CreateDefaultHandlers" =>
       /\ {"JS", "PHP"} \subseteq DOMAIN egRegistry
       /\ egRegistry["JS"].ecosystemInfo.Language = "JavaScript"
       /\ egRegistry["PHP"].ecosystemInfo.Language = "PHP"
       /\ GetHandler(egRegistry, "JS").exists
       /\ GetHandler(egRegistry, "PHP").exists
  /\ egLast.op = "SupportsLanguageID" =>
       (egLast.ok <=> egLast.arg = egLast.handler.languageID)

\* SupportsLanguageID("JS") asked of the JS handler of the default registry.
C29_Witness ==
  /\ egRegistry = CreateDefaultHandlers
  /\ egLast.op = "SupportsLanguageID"
  /\ egLast.handler = egRegistry["JS"]
  /\ egLast.arg = "JS"
  /\ egLast.ok

(***************************************************************************)
(* WaitForever and termination signals.  sigChan is the channel of the     *)
(* current pass of the loop; the channels of earlier passes stay           *)
(* registered with signal.Notify but nothing receives from them.           *)
(***************************************************************************)
\* C30: a termination signal delivered during WaitForever, also while the
\* loop closes, sleeps or restarts, is not lost: it stays pending until the
\* loop receives it, closes everything and returns.
C30_SignalNeverLost ==
  [][sigChan => (sigChan' \/ mainPc' = "returned")]_vars

(***************************************************************************)
(* The consumer loop within one generation: order and exclusion.  The      *)
(* broker numbers its deliveries on a channel 1, 2, 3, ..., so the order   *)
(* of the delivery tags is the order of delivery.                          *)
(***************************************************************************)
\* The tags the broker has delivered on the channel so far.
Delivered == {t \in Tags : tagMsg[t] # 0}

\* C31: the loop hands the deliveries to the handler in the order the
\* broker delivered them and one at a time: while the handler of a delivery
\* runs, every earlier delivery of the stream that was handed over has had
\* its handler end and carries an acknowledgment call, and no later
\* delivery has been handed over; the deliveries handled so far are an
\* initial part of the deliveries made.
C31_InOrderOneAtATime ==
  /\ \A t \in Tags : Processed(t) =>
       /\ t \in Delivered
       /\ \A u \in Delivered : u < t => Processed(u)
  /\ loopPc = "handler" =>
       /\ d \in Delivered
       /\ ~Processed(d)
       /\ \A u \in Delivered : u < d => (Processed(u) /\ ackCalls[u] # <<>>)
       /\ \A u \in Delivered : u > d => ~Processed(u)
  /\ loopPc # "handler" => d = 0

\* The handler runs on the second delivery while a third one is buffered
\* on the consumer's side.
C31_Witness ==
  /\ loopPc = "handler"
  /\ d = 2
  /\ msgs # <<>>
  /\ Processed(1)

(***************************************************************************)
(* One registered queue across reconnects (osv.go 411-449, 498-574).       *)
(* Every successful StartListening starts a new consumer goroutine on a    *)
(* new channel of a new connection: a generation.  Close closes the        *)
(* channel and the connection of the current generation and returns; it    *)
(* does not wait for the consumer goroutine, and config.Handler(d) takes   *)
(* no context and no timeout, so a handler in progress goes on.  The       *)
(* broker puts the unsettled deliveries of a closed channel back on the    *)
(* queue.                                                                  *)
(***************************************************************************)
Generations == 1..MaxGenerations

\* The generation sb.conn and sb.channels refer to.
CurrentGen == Len(gnWorker)

\* The consumer goroutines inside config.Handler(d).
HandlersInProgress == {g \in 1..Len(gnWorker) : gnWorker[g] = "handler"}

InitGen ==
  /\ gnMain = "select"
  /\ gnConnOpen = <<TRUE>>
  /\ gnWorker = <<"range">>
  /\ gnBuffered = <<0>>
  /\ gnUnacked = <<0>>
  /\ gnReady = 0
  /\ gnPublished = 0
  /\ ParkedConsumer
  /\ ParkedUpdate
  /\ ParkedLife
  /\ ParkedConnect
  /\ ParkedErrors
  /\ ParkedDelay
  /\ ParkedPlugin
  /\ ParkedRace
  /\ ParkedPrefetch
  /\ ParkedEco

\* A producer puts a message on the queue.
GnPublish ==
  /\ gnPublished < MaxGenMsgs
  /\ gnPublished' = gnPublished + 1
  /\ gnReady' = gnReady + 1
  /\ UNCHANGED <<gnMain, gnConnOpen, gnWorker, gnBuffered, gnUnacked>>
  /\ UNCHANGED notGenVars

\* The broker pushes a message to the consumer of generation g.
GnDeliver(g) ==
  /\ gnConnOpen[g]
  /\ gnReady > 0
  /\ gnUnacked[g] < PrefetchCount
  /\ gnReady' = gnReady - 1
  /\ gnUnacked' = [gnUnacked EXCEPT ![g] = @ + 1]
  /\ gnBuffered' = [gnBuffered EXCEPT ![g] = @ + 1]
  /\ UNCHANGED <<gnMain, gnConnOpen, gnWorker, gnPublished>>
  /\ UNCHANGED notGenVars

\* `for d := range msgs` of generation g takes a delivery and calls
\* config.Handler(d).
GnReceive(g) ==
  /\ gnWorker[g] = "range"
  /\ gnBuffered[g] > 0
  /\ gnBuffered' = [gnBuffered EXCEPT ![g] = @ - 1]
  /\ gnWorker' = [gnWorker EXCEPT ![g] = "handler"]
  /\ UNCHANGED <<gnMain, gnConnOpen, gnReady, gnUnacked, gnPublished>>
  /\ UNCHANGED notGenVars

\* What closing the channel of generation g does at the broker and to the
\* delivery stream: the unsettled deliveries return to the queue; the
\* stream is closed with what it still holds dropped.
CloseGeneration(st, g) ==
  [st EXCEPT !.open[g] = FALSE,
             !.ready = @ + st.unacked[g],
             !.unacked[g] = 0,
             !.buffered[g] = 0]

GenState ==
  [open |-> gnConnOpen, ready |-> gnReady, unacked |-> gnUnacked,
   buffered |-> gnBuffered]

\* What the acknowledgment calls of one loop body do at the broker for a
\* delivery of generation g: on an open channel Ack settles the delivery,
\* Nack(requeue) settles it and puts the message back, and Nack after Ack
\* on the same delivery makes the broker close the channel; on a closed
\* channel the calls fail, unnoticed.
GnSettle(st, g, calls) ==
  IF ~st.open[g] \/ calls = <<>> THEN st
  ELSE LET settled == [st EXCEPT !.unacked[g] = @ - 1,
                                 !.ready = IF Head(calls) = "nack_requeue"
                                           THEN @ + 1 ELSE @]
       IN IF Len(calls) = 1 THEN settled ELSE CloseGeneration(settled, g)

\* config.Handler(d) of generation g ends and the rest of the inner func
\* runs as ProcessDelivery says.  A panic that escapes the inner func ends
\* the consumer goroutine of the generation; its channel stays open.
GnHandlerEnd(g, h, bkAfter, bkRecover) ==
  /\ gnWorker[g] = "handler"
  /\ LET r == ProcessDelivery(h, bkAfter, bkRecover)
         st == GnSettle(GenState, g, r.calls)
     IN /\ gnWorker' = [gnWorker EXCEPT ![g] =
                          IF r.escaped THEN "dead" ELSE "range"]
        /\ gnConnOpen' = st.open
        /\ gnReady' = st.ready
        /\ gnUnacked' = st.unacked
        /\ gnBuffered' = st.buffered
  /\ UNCHANGED <<gnMain, gnPublished>>
  /\ UNCHANGED notGenVars

\* The delivery stream of generation g is closed and empty: the range loop
\* ends.
GnStreamEnd(g) ==
  /\ gnWorker[g] = "range"
  /\ ~gnConnOpen[g]
  /\ gnBuffered[g] = 0
  /\ gnWorker' = [gnWorker EXCEPT ![g] = "stopped"]
  /\ UNCHANGED <<gnMain, gnConnOpen, gnBuffered, gnUnacked, gnReady,
                 gnPublished>>
  /\ UNCHANGED notGenVars

\* The broker connection of the current generation drops.
GnConnectionLost ==
  /\ gnConnOpen[CurrentGen]
  /\ LET r == CloseGeneration(GenState, CurrentGen)
     IN /\ gnConnOpen' = r.open
        /\ gnReady' = r.ready
        /\ gnUnacked' = r.unacked
        /\ gnBuffered' = r.buffered
  /\ UNCHANGED <<gnMain, gnWorker, gnPublished>>
  /\ UNCHANGED notGenVars

\* WaitForever, `case <-connClosed` (a lost connection or a failed store
\* ping): sb.Close(), then the 10 s sleep.  Close returns without waiting
\* for the consumer goroutine.
GnOnConnClosed ==
  /\ gnMain = "select"
  /\ LET r == IF gnConnOpen[CurrentGen]
              THEN CloseGeneration(GenState, CurrentGen) ELSE GenState
     IN /\ gnConnOpen' = r.open
        /\ gnReady' = r.ready
        /\ gnUnacked' = r.unacked
        /\ gnBuffered' = r.buffered
  /\ gnMain' = "cooldown"
  /\ UNCHANGED <<gnWorker, gnPublished>>
  /\ UNCHANGED notGenVars

\* After the sleep: restart().  On success StartListening has started the
\* consumer goroutine of the next generation; on failure the 30 s sleep
\* and the next pass, whose monitor finds the connection closed.
GnRestart(ok) ==
  /\ gnMain = "cooldown"
  /\ IF ok
     THEN /\ CurrentGen < MaxGenerations
          /\ gnConnOpen' = Append(gnConnOpen, TRUE)
          /\ gnWorker' = Append(gnWorker, "range")
          /\ gnBuffered' = Append(gnBuffered, 0)
          /\ gnUnacked' = Append(gnUnacked, 0)
          /\ gnMain' = "select"
     ELSE /\ gnMain' = "backoff"
          /\ UNCHANGED <<gnConnOpen, gnWorker, gnBuffered, gnUnacked>>
  /\ UNCHANGED <<gnReady, gnPublished>>
  /\ UNCHANGED notGenVars

\* The 30 s sleep ends and the next pass of the loop begins; its monitor
\* finds the connection closed.
GnBackoff ==
  /\ gnMain = "backoff"
  /\ gnMain' = "select"
  /\ UNCHANGED <<gnConnOpen, gnWorker, gnBuffered, gnUnacked, gnReady,
                 gnPublished>>
  /\ UNCHANGED notGenVars

GnConsumer ==
  \E g \in 1..Len(gnWorker) :
    \/ GnDeliver(g)
    \/ GnReceive(g)
    \/ \E h \in {"return", "panic"}, bkAfter \in BookkeepingOutcomes,
          bkRecover \in {"ok", "panic"} : GnHandlerEnd(g, h, bkAfter, bkRecover)
    \/ GnStreamEnd(g)

GnLifecycle ==
  \/ GnOnConnClosed
  \/ \E ok \in BOOLEAN : GnRestart(ok)
  \/ GnBackoff

NextGen ==
  \/ GnPublish
  \/ GnConsumer
  \/ GnConnectionLost
  \/ GnLifecycle

SpecGen == InitGen /\ [][NextGen]_vars

\* C32: at any time at most one handler invocation of the queue is in
\* progress, also across a reconnect: a handler of an earlier generation
\* that still runs does not overlap with one of the new generation.
C32_OneHandlerPerQueue == Cardinality(HandlersInProgress) <= 1

(***************************************************************************)
(* The monitor's exit and the wait of WaitForever.                         *)
(***************************************************************************)
\* The monitor started by the current pass of the loop.
CurrentMonitor == monitors[Len(monitors)]

\* C33: every exit of the monitor wakes the wait of WaitForever, once, and
\* takes it to the reconnect branch (or, when a pending termination signal
\* is picked instead, to the return): a monitor that has exited has closed
\* its closeChan after at most one send, with or without a failure value;
\* the wait leaves for the reconnect branch only on such an exit; the next
\* pass waits on a new monitor and an empty closeChan of its own, so one
\* exit wakes one wait.
C33_MonitorExitWakesWaitOnce ==
  /\ [](\A i \in 1..Len(monitors) :
          monitors[i].state = "done" =>
            (monitors[i].closed /\ monitors[i].sent <= 1))
  /\ [][(mainPc = "select" /\ mainPc' = "cooldown")
          => /\ CurrentMonitor.state = "done"
             /\ CurrentMonitor.closed
             /\ monitors'[Len(monitors)].buf = 0]_vars
  /\ [][(mainPc = "top" /\ mainPc' = "select")
          => /\ Len(monitors') = Len(monitors) + 1
             /\ monitors'[Len(monitors')].state = "running"
             /\ monitors'[Len(monitors')].buf = 0
             /\ ~monitors'[Len(monitors')].closed]_vars
  /\ (mainPc = "select" /\ CurrentMonitor.state = "done")
       ~> (mainPc \in {"cooldown", "returned"})

\* The loop is in the reconnect branch after its monitor exited on a close
\* notification without an error, having sent nothing.
C33_Witness ==
  /\ mainPc = "cooldown"
  /\ monitors # <<>>
  /\ CurrentMonitor.state = "done"
  /\ CurrentMonitor.sent = 0
  /\ CurrentMonitor.closed

(***************************************************************************)
(* Faulting handlers and redelivery.                                       *)
(***************************************************************************)
\* C34: a delivery whose handler faults is not acked and not dropped: on
\* every faulting attempt the loop issues Nack with requeue on it and
\* nothing else, which puts its message back on the queue for another
\* delivery, however many attempts came before.
C34_FaultAlwaysRequeued ==
  [][(loopPc = "handler" /\ handlerOutcome'[d] = "panic")
       => /\ ackCalls'[d] = <<"nack_requeue">>
          /\ d \notin unacked'
          /\ ready' = Append(ready, tagMsg[d])]_vars

(***************************************************************************)
(* Generations of connections.                                             *)
(***************************************************************************)
\* The broker connections the ServiceBase has dialled that are open.
OpenConns == {c \in 1..Len(conns) : conns[c] = "open"}

\* C35: at most one broker connection dialled by the ServiceBase is open at
\* any time, and when restart dials the connection of the next generation
\* the channels, the broker connection and the stores of the generation
\* before it are closed.
C35_OneOpenConnection ==
  /\ [](Cardinality(OpenConns) <= 1)
  /\ [][Len(conns') > Len(conns)
          => /\ OpenConns = {}
             /\ chans = {}
             /\ \A x \in Stores : sbStores[x] # "open"
             /\ mainPc = "cooldown"]_vars

\* A second generation is up: its connection is the open one, the first
\* was closed after it had been lost.
C35_Witness ==
  /\ Len(conns) = 2
  /\ conns[1] = "closed"
  /\ conns[2] = "open"
  /\ sbConn = 2
  /\ attempts = <<"ok">>
  /\ chans # {}

(***************************************************************************)
(* Connect attempts that fail part-way.                                    *)
(***************************************************************************)
\* C36: when CreateServiceBaseWithName returns an error, no store handle
\* and no broker connection that the attempt opened is still open (no
\* ServiceBase exists whose Close could reach them).
C36_FailedConnectLeavesNothingOpen ==
  (cnEnv.entry = "CreateServiceBaseWithName" /\ cnRet = "err")
    => (cnHandles = {} /\ ~cnConn)

\* The first k stores of initializeDatabases.
FirstPluginStores(k) == {PluginStores[j] : j \in 1..k}

\* The stores of initializeDatabases that answer, up to the first that
\* does not.
ReachablePrefix(env) ==
  FirstPluginStores(
    Cardinality({i \in 1..Len(PluginStores) :
                   \A j \in 1..i : env.up[PluginStores[j]]}))

\* C37: initializeDatabases connects codeclarity, knowledge and plugins in
\* that order, each with a Ping; when the k-th fails, the k-1 opened before
\* it are closed and an error comes back without a PluginDatabases value;
\* a value comes back only with all three open.
C37_PluginDatabasesAllOrNone ==
  /\ PluginStores = <<"CodeClarity", "Knowledge", "Plugins">>
  /\ (cnEnv.entry = "CreatePluginBase" /\ cnPc = "done"
        /\ ~ConfigMissing /\ cnEnv.fileOk)
       => /\ cnPinged = ReachablePrefix(cnEnv)
          /\ IF cnPinged = FirstPluginStores(Len(PluginStores))
             THEN cnRet = "pb" /\ cnHandles = cnPinged
             ELSE cnRet = "err" /\ cnHandles = {}
  /\ (cnRet = "pb" /\ cnPc = "done")
       => cnHandles = FirstPluginStores(Len(PluginStores))

\* The plugins store did not answer after codeclarity and knowledge had
\* been opened: both were closed again and an error returned.
C37_Witness ==
  /\ cnEnv.entry = "CreatePluginBase"
  /\ cnPc = "done"
  /\ cnRet = "err"
  /\ cnPinged = {"CodeClarity", "Knowledge"}
  /\ cnHandles = {}

(***************************************************************************)
(* updateAnalysisInTransaction on records of any shape.                    *)
(***************************************************************************)
\* A call that returns an error has not written the persisted record.
ErrorLeavesRecord ==
  [][\A w \in Workers :
       (Returns(w) /\ txRet'[w].kind = "error") => analysis' = analysis]_vars

\* C39: a call of updateAnalysisInTransaction never faults: on every
\* persisted record, also one whose Stage is no index of Steps, it returns
\* the updated record or an error, and a call that returned an error has
\* left the persisted record unchanged.
C39_UpdateNeverFaults ==
  /\ [](\A w \in Workers : txRet[w].kind \in {"none", "ok", "error"})
  /\ ErrorLeavesRecord

(***************************************************************************)
(* The PluginBase callback on handler errors and unusable deliveries.      *)
(***************************************************************************)
\* The plugin's step in the current stage of doc.
PluginStep(doc) ==
  CurrentStage(doc)[FindStep(CurrentStage(doc), PluginName)]

\* The invocation stops before the handler: the message does not parse or
\* the record does not load.  Neither the record, nor the result table, nor
\* a queue is touched.
UnusableDeliveryTouchesNothing ==
  [][(pbPc = "idle" /\ pbCalls' = pbCalls + 1 /\ pbPc' = "idle")
       => /\ pbDoc' = pbDoc
          /\ pbResults' = pbResults
          /\ pbSent' = pbSent
          /\ pbLog' = <<>>]_vars

\* C38: when the handler returns an error the callback calls updateStep
\* once, with status failure and an empty result for the plugin's step,
\* publishes no completion message and returns normally; when the message
\* does not parse or the record does not load, the record and the queues
\* are left alone.
C38_HandlerErrorIsFailureUpdate ==
  /\ [][(pbPc = "update" /\ pbRet.err # "nil")
          => /\ UpdateArgs(pbRet).status = "failure"
             /\ UpdateArgs(pbRet).result = EmptyResult
             /\ UpdateArgs(pbRet).name = PluginName
             /\ pbPc' = "idle"
             /\ pbSent' = pbSent
             /\ Count(pbLog', "panic") = 0
             /\ Count(pbLog', "commit") = 1 =>
                  /\ PluginStep(pbDoc').Status = "failure"
                  /\ PluginStep(pbDoc').Result = EmptyResult]_vars
  /\ UnusableDeliveryTouchesNothing

(***************************************************************************)
(* The list of registered queues.                                          *)
(***************************************************************************)
\* The positions of the lifecycle task, the metrics task and SendMessage at
\* which a field of the ServiceBase is accessed.
AccessPositions ==
  {"start1", "start2", "listen1", "listen2", "close", "config", "db", "conn",
   "clear", "queues", "lookup", "open", "store"}

\* C40: the list of registered queues changes only by AddQueue, which
\* appends one entry; Close, restart, StartListening and SendMessage leave
\* it as it is, so a reconnect leaves on the new connection a consumer for
\* every entry of the list of startup, under the entry's own name.
C40_QueuesOnlyAppended ==
  /\ [][queues' # queues
          => /\ mainPc = "setup"
             /\ \E qc \in QueueArgs : queues' = Append(queues, qc)]_vars
  /\ [][(mainPc = "cooldown" /\ attempts' = Append(attempts, "ok"))
          => /\ queues' = queues
             /\ \A k \in 1..Len(queues) :
                  /\ HasConsumer(chans', sbConn', k)
                  /\ queues[k].Name \in DOMAIN sbChannels'
                  /\ sbChannels'[queues[k].Name][1] = sbConn'
                  /\ queues[sbChannels'[queues[k].Name][2]].Name
                       = queues[k].Name]_vars
  /\ [](\A pc \in AccessPositions :
          Wr("queues") \notin
            (MainAccess(pc) \cup MetricsAccess(pc) \cup SendAccess(pc)))

\* Two different queues were registered and a reconnect has put a
\* consumer for each on the second connection.
C40_Witness ==
  /\ Len(queues) = 2
  /\ queues[1] # queues[2]
  /\ attempts = <<"ok">>
  /\ sbConn = 2
  /\ AllConsuming(chans, sbConn, queues)

====
